---- MODULE Spec2Model ----
(***************************************************************************)
(* Generation orchestration engine of the LINE sticker app.                *)
(*                                                                         *)
(* The repository holds three versions of App.tsx, one per batching        *)
(* strategy of handleStartGeneration:                                      *)
(*   serial          v2.0.4  src/unnamed/part_000:1-323                    *)
(*   grid            v2.1.1  src/unnamed/part_000:326-636                  *)
(*   small-parallel  v2.0.1  src/unnamed/part_001:1-295                    *)
(* and the Generation Client with retryWithModelFallback                   *)
(* (src/unnamed/part_003).                                                 *)
(*                                                                         *)
(* JavaScript runs one handler segment at a time: the code between two     *)
(* awaits is one atomic action.  An async function is a record with a pc   *)
(* that names the await it is suspended at.                                *)
(***************************************************************************)
EXTENDS Integers, Sequences, FiniteSets, TLC

(***************************************************************************)
(* Bounds of the model.                                                    *)
(***************************************************************************)
MaxPlanSerial == 2
MaxPlanGrid == 5
MaxPlanParallel == 5
MaxPlanCall == 2
\* how many operator actions (plan, start, regenerate, cancel, reset, unmount)
\* a behaviour holds
MaxClicks == 4
\* pixels of the image the background-removal pass runs over
MaxPixels == 1
\* entries of the ledger shown when the archive is downloaded
MaxStickers == 3
\* content parts of a response
MaxParts == 2
\* items of the list generateStickerPlan parses, where captions are edited
MaxPlanText == 2
\* generateSingleStickerImage requests issued by small-parallel runs
MaxRequests == 5

(***************************************************************************)
(* Strings.  An error message is a sequence of characters, so that         *)
(* String.prototype.includes is a real (case-sensitive) substring search.  *)
(* The empty sequence is ''.                                               *)
(***************************************************************************)
Includes(s, sub) ==
  \E k \in 0..(Len(s) - Len(sub)) : SubSeq(s, k + 1, k + Len(sub)) = sub

S429 == <<"4", "2", "9">>
S503 == <<"5", "0", "3">>
SResourceExhausted ==
  <<"R","E","S","O","U","R","C","E","_","E","X","H","A","U","S","T","E","D">>
SQuota == <<"q","u","o","t","a">>
SOverloaded == <<"O","v","e","r","l","o","a","d","e","d">>
SExhausted == <<"E","x","h","a","u","s","t","e","d">>
SRetry == <<"R","E","T","R","Y">>
SAborted == <<"A","b","o","r","t","e","d">>

\* Messages the external capability (or local processing) can fail with.
MsgTooMany == S429 \o <<" ">> \o SResourceExhausted
MsgUnavailable == S503 \o <<" ">> \o SOverloaded
MsgQuota == <<"Y","o","u","r"," ">> \o SQuota
MsgExhausted == <<"R","e","s","o","u","r","c","e"," ">> \o SExhausted
MsgStatus == SResourceExhausted
MsgSafety == <<"S","a","f","e","t","y">>
MsgNoImage == <<"N","o"," ","i","m","a","g","e">>
MsgApiKey == <<"A","P","I"," ","K","e","y">>
\* error.message of a rejection that is not an Error (img.onerror passes an
\* Event): undefined.  It is no character sequence.
Undefined == <<"undefined">>
\* a || b on strings: undefined and '' are falsy
OrElse(a, b) == IF a = Undefined \/ a = << >> THEN b ELSE a

ErrorMessages ==
  {MsgTooMany, MsgUnavailable, MsgQuota, MsgExhausted, MsgStatus,
   MsgSafety, MsgNoImage, MsgApiKey, Undefined}

\* The errors a call of generateSingleStickerImage or generateStickerGrid is
\* taken to reject with: one message of each class the schedulers tell apart.
CallErrors == {MsgTooMany, MsgQuota, MsgSafety, Undefined}

\* the message of a request the service refuses for its key
CredentialErrors == {MsgApiKey}

(***************************************************************************)
(* getAI (src/unnamed/part_003:8-23).  The key is a character sequence,    *)
(* Undefined when the variable is not set.                                 *)
(***************************************************************************)
SAIza == <<"A","I","z","a">>
SGenLang == <<"g","e","n","-","l","a","n","g","-","c","l","i","e","n","t">>

\* s.includes(p) in the place of s.startsWith(p)
StartsWithAnywhere(s, p) == Includes(s, p)

\* s.startsWith(p)
StartsWith(s, p) == Len(s) >= Len(p) /\ SubSeq(s, 1, Len(p)) = p

\* s.substring(a, b) for 0 <= a <= b
Substring(s, a, b) == SubSeq(s, a + 1, IF b < Len(s) THEN b ELSE Len(s))

ValidKey == SAIza \o <<"S","y">>

\* the values of VITE_API_KEY considered: not set, empty, a well-formed key,
\* a project id, a truncated key and a key of another service
Keys ==
  {Undefined, << >>, ValidKey, SGenLang \o <<"-","0">>, <<"A","I","z">>,
   <<"s","k","-">> \o SAIza}

\* line 14, rendered in English; the text starts with "API Key"
MsgNoKey == MsgApiKey \o <<" ","n","o","t"," ","s","e","t">>

\* line 19: the message quotes the first ten characters of the key
MsgKeyFormat(key) ==
  <<"K","e","y"," ","(">> \o Substring(key, 0, 10)
     \o <<".",".",".",")"," ","f","o","r","m","a","t">>

\* GetAI with a slip: the shape of the key is not validated.
GetAIAbsentOnly(key) ==
  IF key = Undefined \/ key = << >>
  THEN [ok |-> FALSE, message |-> MsgNoKey]
  ELSE [ok |-> TRUE, message |-> << >>]

\* getAI(): a client, or the error thrown
GetAI(key) ==
  IF key = Undefined \/ key = << >>
  THEN [ok |-> FALSE, message |-> MsgNoKey]
  ELSE IF StartsWith(key, SGenLang) \/ ~StartsWith(key, SAIza)
       THEN [ok |-> FALSE, message |-> MsgKeyFormat(key)]
       ELSE [ok |-> TRUE, message |-> << >>]

(***************************************************************************)
(* retryWithModelFallback (src/unnamed/part_003:40-84).                    *)
(***************************************************************************)
IMAGE_MODELS == <<"gemini-2.5-flash-image", "gemini-2.0-flash-exp">>
MaxAttempts == 3

IsRetryable(msg) ==
  \/ Includes(msg, S429)
  \/ Includes(msg, S503)
  \/ Includes(msg, SResourceExhausted)
  \/ Includes(msg, SQuota)
  \/ Includes(msg, SOverloaded)

\* a delay that does not grow with the attempt
BackoffDelayFlat(attempt) == 5000 + 2000

BackoffDelay(attempt) == attempt * 5000 + 2000

VARIABLES
  rw,                  \* one activation of retryWithModelFallback
  apiKey,              \* import.meta.env.VITE_API_KEY, fixed by the build
  imageData,           \* the canvas pixels processStickerImage works on
  zip,                 \* handleDownloadAll: its position and the JSZip folder
  response,            \* the generateContent response an image function handles
  step, stickerPlan, results, isThinking,   \* React state (AppState)
  abortControllerRef,  \* index of the current AbortController, 0 = null
  controllers,         \* controllers[k] = signal.aborted of controller k
  isMounted,
  runs,                \* activations of handleStartGeneration
  tasks,               \* small-parallel: batch members in flight
  regens,              \* activations of handleRegenerateSingle
  planCalls,           \* activations of handleGeneratePlan in flight
  clicks,              \* operator actions taken so far
  requests,            \* small-parallel: member requests issued so far
  event                \* history: what the last step did

\* the state outside the App component
libVars == <<apiKey, imageData, zip, response>>

\* the state of the App component and the history kept about it
reactVars ==
  <<step, stickerPlan, results, isThinking, abortControllerRef, controllers,
    isMounted, runs, tasks, regens, planCalls, clicks, requests,
    event>>

appVars == <<libVars, reactVars>>

vars == <<rw, appVars>>

(***************************************************************************)
(* One activation of retryWithModelFallback.  The operation is the input:  *)
(* each of its invocations resolves, or rejects with any error.  An error  *)
(* object is its message and the ordinal of the invocation that threw it.  *)
(***************************************************************************)
NoErr == [message |-> << >>, n |-> 0]

LogEntry(kind, model, attempt, msg, ms) ==
  [kind |-> kind, model |-> model, attempt |-> attempt, msg |-> msg, ms |-> ms]

CallsIn(log) == Cardinality({k \in 1..Len(log) : log[k].kind = "call"})

RwInit ==
  rw = [pc |-> "call", model |-> 1, attempt |-> 1, lastError |-> NoErr,
        thrown |-> NoErr,
        log |-> <<LogEntry("call", IMAGE_MODELS[1], 1, << >>, 0)>>]

\* line 50: return await operation(model)
OperationResolves ==
  /\ rw.pc = "call"
  /\ rw' = [rw EXCEPT !.pc = "returned",
                      !.log = Append(@, LogEntry("ok", IMAGE_MODELS[rw.model],
                                                 rw.attempt, << >>, 0))]
  /\ UNCHANGED appVars

\* RwCatch with a slip: an exhausted model ends the call instead of falling
\* back to the next model.
RwCatchNoFallback(w, error) ==
  LET msg == OrElse(error.message, << >>)
      failed == [w EXCEPT !.lastError = error,
                          !.log = Append(@, LogEntry("fail", IMAGE_MODELS[w.model],
                                                     w.attempt, msg, 0))]
  IN IF IsRetryable(msg) /\ w.attempt < MaxAttempts
     THEN [failed EXCEPT !.pc = "wait",
                         !.log = Append(@, LogEntry("wait", IMAGE_MODELS[w.model],
                                                    w.attempt, << >>,
                                                    BackoffDelay(w.attempt)))]
     ELSE [failed EXCEPT !.pc = "thrown", !.thrown = error]

\* RwCatch with a slip: the retryable test is dropped, every failure is
\* retried.
RwCatchRetryAll(w, error) ==
  LET msg == OrElse(error.message, << >>)
      failed == [w EXCEPT !.lastError = error,
                          !.log = Append(@, LogEntry("fail", IMAGE_MODELS[w.model],
                                                     w.attempt, msg, 0))]
  IN IF w.attempt < MaxAttempts
     THEN [failed EXCEPT !.pc = "wait",
                         !.log = Append(@, LogEntry("wait", IMAGE_MODELS[w.model],
                                                    w.attempt, << >>,
                                                    BackoffDelay(w.attempt)))]
     ELSE IF w.model < Len(IMAGE_MODELS)
          THEN [failed EXCEPT !.pc = "call", !.model = w.model + 1,
                              !.attempt = 1,
                              !.log = Append(@, LogEntry("call",
                                                IMAGE_MODELS[w.model + 1], 1,
                                                << >>, 0))]
          ELSE [failed EXCEPT !.pc = "thrown", !.thrown = failed.lastError]

\* RwCatch with a slip: a model is left after its second failure
\* (attempt < 2 in the place of attempt < 3).
RwCatchEarlyFallback(w, error) ==
  LET msg == OrElse(error.message, << >>)
      failed == [w EXCEPT !.lastError = error,
                          !.log = Append(@, LogEntry("fail", IMAGE_MODELS[w.model],
                                                     w.attempt, msg, 0))]
  IN IF IsRetryable(msg)
     THEN IF w.attempt < MaxAttempts - 1
          THEN [failed EXCEPT !.pc = "wait",
                              !.log = Append(@, LogEntry("wait", IMAGE_MODELS[w.model],
                                                         w.attempt, << >>,
                                                         BackoffDelay(w.attempt)))]
          ELSE IF w.model < Len(IMAGE_MODELS)
               THEN [failed EXCEPT !.pc = "call", !.model = w.model + 1,
                                   !.attempt = 1,
                                   !.log = Append(@, LogEntry("call",
                                                     IMAGE_MODELS[w.model + 1], 1,
                                                     << >>, 0))]
               ELSE [failed EXCEPT !.pc = "thrown", !.thrown = failed.lastError]
     ELSE [failed EXCEPT !.pc = "thrown", !.thrown = error]

\* lines 51-78 and, when the last model is exhausted, line 83
RwCatch(w, error) ==
  LET msg == OrElse(error.message, << >>)
      failed == [w EXCEPT !.lastError = error,
                          !.log = Append(@, LogEntry("fail", IMAGE_MODELS[w.model],
                                                     w.attempt, msg, 0))]
  IN IF IsRetryable(msg)
     THEN IF w.attempt < MaxAttempts
          THEN [failed EXCEPT !.pc = "wait",
                              !.log = Append(@, LogEntry("wait", IMAGE_MODELS[w.model],
                                                         w.attempt, << >>,
                                                         BackoffDelay(w.attempt)))]
          ELSE IF w.model < Len(IMAGE_MODELS)
               THEN [failed EXCEPT !.pc = "call", !.model = w.model + 1,
                                   !.attempt = 1,
                                   !.log = Append(@, LogEntry("call",
                                                     IMAGE_MODELS[w.model + 1], 1,
                                                     << >>, 0))]
               ELSE [failed EXCEPT !.pc = "thrown", !.thrown = failed.lastError]
     ELSE [failed EXCEPT !.pc = "thrown", !.thrown = error]

OperationRejects(m) ==
  /\ rw.pc = "call"
  /\ rw' = RwCatch(rw, [message |-> m, n |-> CallsIn(rw.log)])
  /\ UNCHANGED appVars

\* line 67-68: the backoff timer fires, continue with the same model
WaitElapses ==
  /\ rw.pc = "wait"
  /\ rw' = [rw EXCEPT !.pc = "call", !.attempt = rw.attempt + 1,
                      !.log = Append(@, LogEntry("call", IMAGE_MODELS[rw.model],
                                                 rw.attempt + 1, << >>, 0))]
  /\ UNCHANGED appVars

RetryNext ==
  \/ OperationResolves
  \/ \E m \in ErrorMessages : OperationRejects(m)
  \/ WaitElapses

(***************************************************************************)
(* App state.                                                              *)
(*                                                                         *)
(* A plan item is its id; the caption text is not modelled.  An image      *)
(* payload is identified by the request that produced it.                  *)
(***************************************************************************)
NoImage == [kind |-> "", run |-> 0, item |-> 0, n |-> 0, png |-> FALSE]
NoError == << >>

SingleImage(run, item, n) ==
  [kind |-> "single", run |-> run, item |-> item, n |-> n, png |-> FALSE]
RegenImage(epoch, item, n) ==
  [kind |-> "regen", run |-> epoch, item |-> item, n |-> n, png |-> FALSE]

\* processStickerImage: a 320x320 png derived from the raw image
ProcessStickerImage(raw) == [raw EXCEPT !.png = TRUE]
\* requests of processStickerImage: no canvas context, or img.onerror
MsgCanvas == <<"C","a","n","v","a","s">>
ProcessErrors == {MsgCanvas, Undefined}

\* generateStickerPlan: id is the index in the parsed list
PlanOf(n) == [k \in 1..n |-> [id |-> k - 1]]

InitialResults(plan) ==
  [k \in 1..Len(plan) |->
     [id |-> plan[k].id, status |-> "pending", imageUrl |-> NoImage,
      processedUrl |-> NoImage, error |-> NoError]]

\* plan.find(p => p.id === id) is defined
InPlan(plan, id) == \E k \in 1..Len(plan) : plan[k].id = id

\* ResultsGrid's isGenerating prop
IsGenerating(res) ==
  \E k \in 1..Len(res) : res[k].status \in {"pending", "generating"}

\* the updaters of setState(prev => ({...prev, results: prev.results.map(...)}))
SetGenerating(e) == [e EXCEPT !.status = "generating"]
SetErrorPlain(e) == [e EXCEPT !.status = "error"]
\* SetSuccess with a slip: the composite is not stored.
SetSuccessRawOnly(e, raw) == [e EXCEPT !.status = "success", !.imageUrl = raw]

SetSuccess(e, raw) ==
  [e EXCEPT !.status = "success", !.imageUrl = raw,
            !.processedUrl = ProcessStickerImage(raw)]

\* prev.results.map(r => ids.includes(r.id) ? F(r) : r)
MapIds(res, ids, F(_)) ==
  [k \in 1..Len(res) |-> IF res[k].id \in ids THEN F(res[k]) ELSE res[k]]

\* the ids of the entries with status success
SuccessIds(res) == {res[k].id : k \in {j \in 1..Len(res) : res[j].status = "success"}}

\* abortControllerRef.current?.signal.aborted
Aborted == abortControllerRef # 0 /\ controllers[abortControllerRef]

Env == [aborted |-> Aborted, mounted |-> isMounted]

\* event: the kind of the last step, the run on whose behalf it was taken
\* (0: an operator action), whether it changed the ledger, the ids it issued
\* a request for, the ids of the batch it handled, those of them that were
\* success before the step, and the error message it recorded.
NoEvent ==
  [kind |-> "", run |-> 0, wrote |-> FALSE, issued |-> {}, ids |-> {},
   prev |-> {}, msg |-> << >>]

UserEvent(kind) == [NoEvent EXCEPT !.kind = kind]

\* initialState (part_000:341-353) and the refs
AppStart ==
  /\ step = "setup"
  /\ stickerPlan = << >>
  /\ results = << >>
  /\ isThinking = FALSE
  /\ abortControllerRef = 0
  /\ controllers = << >>
  /\ isMounted = TRUE
  /\ runs = << >>
  /\ tasks = {}
  /\ regens = {}
  /\ planCalls = 0
  /\ clicks = 0
  /\ requests = 0
  /\ event = NoEvent

\* no image is being processed
ImageIdle == imageData = [orig |-> << >>, data |-> << >>, i |-> 0]

\* handleDownloadAll has not been called
ZipIdle == zip = [pc |-> "idle", stickers |-> << >>, files |-> {}, resized |-> 0]

\* no response is being handled
NoResult == [ok |-> FALSE, value |-> << >>, message |-> << >>]
ResponseIdle ==
  response = [pc |-> "idle", fn |-> "", candidates |-> << >>,
              result |-> NoResult]

LibIdle == ImageIdle /\ ZipIdle /\ ResponseIdle

AppInit ==
  /\ apiKey = ValidKey
  /\ LibIdle
  /\ AppStart

(***************************************************************************)
(* Operator actions and handlers that all three versions of App share.     *)
(* The guards are the conditions under which the UI offers the control.    *)
(***************************************************************************)
\* one more operator action
Click == clicks < MaxClicks /\ clicks' = clicks + 1

\* handleGeneratePlan up to its await (part_000:365-381); the button of
\* SetupForm is disabled while isThinking (part_002:252-254).
GeneratePlanStart ==
  /\ isMounted /\ step = "setup" /\ ~isThinking
  /\ Click
  /\ isThinking' = TRUE
  /\ planCalls' = planCalls + 1
  /\ event' = UserEvent("plan")
  /\ UNCHANGED <<rw, libVars, step, stickerPlan, results, abortControllerRef,
                 controllers, isMounted, runs, tasks, requests, regens>>

\* generateStickerPlan resolves with a parsed list of n items (part_000:382-386)
GeneratePlanResolve(n) ==
  /\ planCalls > 0
  /\ planCalls' = planCalls - 1
  /\ stickerPlan' = PlanOf(n)
  /\ isThinking' = FALSE
  /\ event' = UserEvent("planned")
  /\ UNCHANGED <<rw, libVars, step, results, abortControllerRef, controllers,
                 isMounted, runs, tasks, requests, regens, clicks>>

\* GeneratePlanReject with a slip: the catch block does not reset isThinking.
GeneratePlanRejectThinking ==
  /\ planCalls > 0
  /\ planCalls' = planCalls - 1
  /\ event' = UserEvent("planFailed")
  /\ UNCHANGED <<rw, libVars, step, stickerPlan, results, isThinking,
                 abortControllerRef, controllers, isMounted, runs, tasks,
                 requests, regens, clicks>>

\* generateStickerPlan rejects (part_000:387-392)
GeneratePlanReject ==
  /\ planCalls > 0
  /\ planCalls' = planCalls - 1
  /\ isThinking' = FALSE
  /\ event' = UserEvent("planFailed")
  /\ UNCHANGED <<rw, libVars, step, stickerPlan, results, abortControllerRef,
                 controllers, isMounted, runs, tasks, requests, regens, clicks>>

\* abortControllerRef.current.abort(); cancelledAt records, for the run that
\* owns the controller, the await it was suspended at when the abort came
\* from handleCancelGeneration, and "reset" when it came from handleReset.
AbortCurrent(by) ==
  /\ controllers' =
       IF abortControllerRef # 0
       THEN [controllers EXCEPT ![abortControllerRef] = TRUE]
       ELSE controllers
  /\ runs' =
       [k \in 1..Len(runs) |->
          IF /\ runs[k].ctrl = abortControllerRef
             /\ ~controllers[runs[k].ctrl]
             /\ runs[k].pc \notin {"done", "stopped"}
          THEN [runs[k] EXCEPT !.cancelledAt =
                                  IF by = "cancel" THEN runs[k].pc ELSE by]
          ELSE runs[k]]

\* CancelGeneration with a slip: the ledger is cleared as handleReset does.
CancelGenerationClearing ==
  /\ isMounted /\ step = "generating" /\ IsGenerating(results)
  /\ Click
  /\ AbortCurrent("cancel")
  /\ step' = "setup"
  /\ results' = << >>
  /\ event' = UserEvent("cancel")
  /\ UNCHANGED <<rw, libVars, stickerPlan, isThinking, abortControllerRef,
                 isMounted, tasks, requests, regens, planCalls>>

\* handleCancelGeneration (part_000:582-590); the button is rendered by
\* ResultsGrid while isGenerating (ResultsGrid.tsx:84-98).
CancelGeneration ==
  /\ isMounted /\ step = "generating" /\ IsGenerating(results)
  /\ Click
  /\ AbortCurrent("cancel")
  /\ step' = "setup"
  /\ event' = UserEvent("cancel")
  /\ UNCHANGED <<rw, libVars, stickerPlan, results, isThinking, abortControllerRef,
                 isMounted, tasks, requests, regens, planCalls>>

\* Reset with a slip: the controller is not aborted.
ResetUnaborted ==
  /\ isMounted
  /\ Click
  /\ step' = "setup"
  /\ stickerPlan' = << >>
  /\ results' = << >>
  /\ isThinking' = FALSE
  /\ event' = UserEvent("reset")
  /\ UNCHANGED <<rw, libVars, abortControllerRef, controllers, runs, isMounted,
                 tasks, requests, regens, planCalls>>

\* handleReset (part_000:592-597); the header is always clickable
\* (part_000:603).
Reset ==
  /\ isMounted
  /\ Click
  /\ AbortCurrent("reset")
  /\ step' = "setup"
  /\ stickerPlan' = << >>
  /\ results' = << >>
  /\ isThinking' = FALSE
  /\ event' = UserEvent("reset")
  /\ UNCHANGED <<rw, libVars, abortControllerRef, isMounted, tasks, requests, regens, planCalls>>

\* the effect cleanup (part_000:358-360)
Unmount ==
  /\ isMounted
  /\ Click
  /\ isMounted' = FALSE
  /\ event' = UserEvent("unmount")
  /\ UNCHANGED <<rw, libVars, step, stickerPlan, results, isThinking,
                 abortControllerRef, controllers, runs, tasks, requests, regens,
                 planCalls>>

(***************************************************************************)
(* handleRegenerateSingle.  version is "serial" (part_000:227-267), "grid" *)
(* (part_000:543-580) or "parallel" (part_001:203-239); they differ in the *)
(* catch block only.  A regenerate call is [n, id, epoch, pc].             *)
(***************************************************************************)
\* a step of regenerate call g, which belongs to the run current at its start
RegenEvent(kind, g, res) ==
  [NoEvent EXCEPT !.kind = kind, !.run = g.epoch, !.wrote = (res # results)]

SetErrorMsg(e, msg) == [e EXCEPT !.status = "error", !.error = msg]

\* the catch block
RegenCatch(version, L, g, m) ==
  CASE version = "grid" ->
         LET F(e) == SetErrorMsg(e, IF m = Undefined THEN NoError ELSE m)
         IN MapIds(L, {g.id}, F)
    [] version = "serial" ->
         \* msg.includes(...) throws a TypeError when msg is undefined
         IF m = Undefined THEN L
         ELSE MapIds(L, {g.id}, SetErrorPlain)
    [] OTHER -> MapIds(L, {g.id}, SetErrorPlain)

\* RegenerateStart with a slip: the item is not looked up in the plan.
RegenerateStartUnchecked(id) ==
  /\ isMounted /\ step = "generating" /\ ~IsGenerating(results)
  /\ \E k \in 1..Len(results) :
        /\ results[k].id = id
        /\ results[k].status = "success"
        /\ results[k].processedUrl # NoImage
  /\ Click
  /\ results' = MapIds(results, {id}, SetGenerating)
  /\ regens' = regens \cup
        {[n |-> clicks + 1, id |-> id, epoch |-> Len(runs), pc |-> "gen"]}
  /\ event' = [UserEvent("regenerate") EXCEPT !.run = Len(runs),
                                              !.issued = {id}]
  /\ UNCHANGED <<rw, libVars, step, stickerPlan, isThinking, abortControllerRef,
                 controllers, isMounted, runs, tasks, requests, planCalls>>

\* the button is rendered on a success entry and disabled while
\* isGenerating (ResultsGrid.tsx:157-175)
RegenerateStart(id) ==
  /\ isMounted /\ step = "generating" /\ ~IsGenerating(results)
  /\ \E k \in 1..Len(results) :
        /\ results[k].id = id
        /\ results[k].status = "success"
        /\ results[k].processedUrl # NoImage
  /\ Click
  /\ IF InPlan(stickerPlan, id)
     THEN /\ results' = MapIds(results, {id}, SetGenerating)
          /\ regens' = regens \cup
               {[n |-> clicks + 1, id |-> id, epoch |-> Len(runs),
                 pc |-> "gen"]}
     ELSE UNCHANGED <<results, regens>>
  /\ event' = [UserEvent("regenerate") EXCEPT
                 !.run = Len(runs),
                 !.issued = IF InPlan(stickerPlan, id) THEN {id} ELSE {}]
  /\ UNCHANGED <<rw, libVars, step, stickerPlan, isThinking, abortControllerRef,
                 controllers, isMounted, runs, tasks, requests, planCalls>>

RegenFrame ==
  UNCHANGED <<rw, libVars, step, stickerPlan, isThinking, abortControllerRef,
              controllers, isMounted, runs, tasks, requests, planCalls, clicks>>

\* generateSingleStickerImage resolves; processStickerImage is awaited next
RegenGenResolve(g) ==
  /\ g \in regens /\ g.pc = "gen"
  /\ regens' = (regens \ {g}) \cup {[g EXCEPT !.pc = "proc"]}
  /\ event' = RegenEvent("regenGen", g, results)
  /\ UNCHANGED <<results>>
  /\ RegenFrame

RegenGenReject(version, g, m) ==
  /\ g \in regens /\ g.pc = "gen"
  /\ regens' = regens \ {g}
  /\ results' = RegenCatch(version, results, g, m)
  /\ event' = RegenEvent("regenFailed", g, results')
  /\ RegenFrame

RegenProcResolve(g) ==
  /\ g \in regens /\ g.pc = "proc"
  /\ regens' = regens \ {g}
  /\ LET F(e) == SetSuccess(e, RegenImage(g.epoch, g.id, g.n))
     IN results' = MapIds(results, {g.id}, F)
  /\ event' = RegenEvent("regenDone", g, results')
  /\ RegenFrame

RegenProcReject(version, g, m) ==
  /\ g \in regens /\ g.pc = "proc"
  /\ regens' = regens \ {g}
  /\ results' = RegenCatch(version, results, g, m)
  /\ event' = RegenEvent("regenFailed", g, results')
  /\ RegenFrame

\* the steps every version of App can take besides its run loop
Common(version, maxPlan) ==
  \/ GeneratePlanStart
  \/ \E n \in 1..maxPlan : GeneratePlanResolve(n)
  \/ GeneratePlanReject
  \/ CancelGeneration
  \/ Reset
  \/ Unmount
  \/ \E id \in 0..(maxPlan - 1) : RegenerateStart(id)
  \/ \E g \in regens : RegenGenResolve(g)
  \/ \E g \in regens : \E m \in CallErrors : RegenGenReject(version, g, m)
  \/ \E g \in regens : RegenProcResolve(g)
  \/ \E g \in regens : \E m \in ProcessErrors : RegenProcReject(version, g, m)

(***************************************************************************)
(* Activations of handleStartGeneration.  A run record holds the locals    *)
(* of the activation and what its closure captured:                        *)
(*   id, ctrl     the run's number and the controller it created           *)
(*   cancelledAt  history: the await it was at when ctrl was aborted       *)
(*   pc           the await it is suspended at, "done" (loop condition     *)
(*                false) or "stopped" (break at the loop top)              *)
(*   i, retryCount, success   the locals (success is batchSuccess in the   *)
(*                small-parallel version)                                  *)
(*   plan, seen   state.stickerPlan, and the ids whose entry is success in  *)
(*                state.results, of the render the handler was created in  *)
(*                (the code reads nothing else of state.results)           *)
(*   calls, procs history: the generation requests the activation has      *)
(*                issued, and its processStickerImage calls that returned  *)
(*   failed       history: a call the activation awaited has rejected      *)
(*   tried        history: the ids the activation has issued a request for *)
(*   settled      history, serial version: the ids the activation has      *)
(*                queued a success or error write for                      *)
(*   fatal        history: a generation request of the activation has been *)
(*                rejected for the credential                              *)
(*   attempts, fails, waits   history, serial version: for the item at i,  *)
(*                the requests issued, the attempts that failed with a     *)
(*                rate-limit message and the 20 s waits that have elapsed  *)
(* The operators below run the code from one point to the next await and   *)
(* return [run, L, issued]: the run, the ledger after the queued updaters  *)
(* and the ids a request was issued for.  env is what the refs hold while  *)
(* the segment runs.                                                       *)
(***************************************************************************)
NewRun(r, c) ==
  [id |-> r, ctrl |-> c, cancelledAt |-> "", pc |-> "start", i |-> 0,
   retryCount |-> 0, success |-> FALSE, plan |-> stickerPlan,
   seen |-> SuccessIds(results), calls |-> 0, procs |-> 0, failed |-> FALSE,
   fatal |-> FALSE, attempts |-> 0, fails |-> 0, waits |-> 0, tried |-> {},
   settled |-> {}]

\* NewLedger with a slip: the last item of the plan gets no entry.
NewLedgerShort ==
  SubSeq(InitialResults(stickerPlan), 1, Len(stickerPlan) - 1)

\* setState(prev => ({...prev, step: 'generating', results: initialResults}))
NewLedger == InitialResults(stickerPlan)

FreshEnv == [aborted |-> FALSE, mounted |-> TRUE]

Suspend(u, pc, L, issued) ==
  [run |-> [u EXCEPT !.pc = pc, !.tried = @ \cup issued], L |-> L,
   issued |-> issued]

RunEvent(kind, r, M, ids, prev, msg) ==
  [kind |-> kind, run |-> r, wrote |-> (M.L # results), issued |-> M.issued,
   ids |-> ids, prev |-> prev, msg |-> msg]

\* the frame of a step of run r that ends in configuration M
Commit(r, M, ev) ==
  /\ runs' = [runs EXCEPT ![r] = M.run]
  /\ results' = M.L
  /\ event' = ev
  /\ UNCHANGED <<rw, libVars, step, stickerPlan, isThinking, abortControllerRef,
                 controllers, isMounted, regens, planCalls, clicks>>

\* the frame of handleStartGeneration up to its first await
CommitStart(M, ev) ==
  /\ isMounted /\ step = "setup" /\ Len(stickerPlan) > 0
  /\ Click
  /\ controllers' = Append(controllers, FALSE)
  /\ abortControllerRef' = Len(controllers) + 1
  /\ step' = "generating"
  /\ runs' = Append(runs, M.run)
  /\ results' = M.L
  /\ event' = ev
  /\ UNCHANGED <<rw, libVars, stickerPlan, isThinking, isMounted, regens, planCalls>>

(***************************************************************************)
(* Serial strategy, v2.0.4 (part_000:102-224).                             *)
(***************************************************************************)
MAX_RETRIES == 2

SerialRetryable(msg) ==
  \/ Includes(msg, S429)
  \/ Includes(msg, SExhausted)
  \/ Includes(msg, SQuota)
  \/ Includes(msg, SRetry)

SerialItem(u) == u.plan[u.i + 1]

\* a success or error updater for the item at i is queued
Settling(u) == [u EXCEPT !.settled = @ \cup {SerialItem(u).id}]

RECURSIVE SerialOuter(_, _, _), SerialInner(_, _, _), SerialAfter(_, _, _)

\* SerialAfter with a slip: the pacing wait is skipped after an item that
\* was retried.
SerialAfterUnpaced(u, L, env) ==
  LET L1 == IF ~u.success
            THEN MapIds(L, {SerialItem(u).id}, SetErrorPlain)
            ELSE L
      u1 == IF ~u.success THEN Settling(u) ELSE u
  IN IF u.i < Len(u.plan) - 1 /\ u.retryCount = 0
     THEN Suspend(u1, "pace", L1, {})
     ELSE SerialOuter([u1 EXCEPT !.i = u.i + 1], L1, env)

\* lines 206-223: after the retry loop
SerialAfter(u, L, env) ==
  LET L1 == IF ~u.success
            THEN MapIds(L, {SerialItem(u).id}, SetErrorPlain)
            ELSE L
      u1 == IF ~u.success THEN Settling(u) ELSE u
  IN IF u.i < Len(u.plan) - 1
     THEN Suspend(u1, "pace", L1, {})
     ELSE SerialOuter([u1 EXCEPT !.i = u.i + 1], L1, env)

\* SerialInner with a slip: the bound of the retry loop is strict.
SerialInnerStrict(u, L, env) ==
  IF ~(~u.success /\ u.retryCount < MAX_RETRIES) THEN SerialAfter(u, L, env)
  ELSE IF env.aborted THEN SerialAfter(u, L, env)
  ELSE IF SerialItem(u).id \in u.seen
       THEN SerialAfter([u EXCEPT !.success = TRUE], L, env)
       ELSE Suspend([u EXCEPT !.attempts = @ + 1], "gen", L,
                    {SerialItem(u).id})

\* SerialInner with a slip: the retry loop admits one more attempt.
SerialInnerExtra(u, L, env) ==
  IF ~(~u.success /\ u.retryCount <= MAX_RETRIES + 1) THEN SerialAfter(u, L, env)
  ELSE IF env.aborted THEN SerialAfter(u, L, env)
  ELSE IF SerialItem(u).id \in u.seen
       THEN SerialAfter([u EXCEPT !.success = TRUE], L, env)
       ELSE Suspend([u EXCEPT !.attempts = @ + 1, !.calls = @ + 1], "gen", L,
                    {SerialItem(u).id})

\* lines 147-163: the top of the retry loop, up to the request
SerialInner(u, L, env) ==
  IF ~(~u.success /\ u.retryCount <= MAX_RETRIES) THEN SerialAfter(u, L, env)
  ELSE IF env.aborted THEN SerialAfter(u, L, env)
  ELSE IF SerialItem(u).id \in u.seen
       THEN SerialAfter([u EXCEPT !.success = TRUE], L, env)
       ELSE Suspend([u EXCEPT !.attempts = @ + 1, !.calls = @ + 1], "gen", L,
                    {SerialItem(u).id})

\* lines 129-145: the top of the item loop
SerialOuter(u, L, env) ==
  IF ~(u.i < Len(u.plan)) THEN Suspend(u, "done", L, {})
  ELSE IF ~env.mounted \/ env.aborted THEN Suspend(u, "stopped", L, {})
  ELSE SerialInner([u EXCEPT !.success = FALSE, !.retryCount = 0,
                             !.attempts = 0, !.fails = 0, !.waits = 0],
                   MapIds(L, {SerialItem(u).id}, SetGenerating), env)

\* the attempt on the item at i has failed with message msg
Failing(u, msg) ==
  IF SerialRetryable(msg) THEN [u EXCEPT !.fails = @ + 1] ELSE u

\* lines 182-203: the catch block
SerialCatch(u, L, env, msg) ==
  IF env.aborted THEN SerialAfter(u, L, env)
  ELSE IF SerialRetryable(msg) THEN Suspend(u, "cooldown", L, {})
  ELSE SerialInner([Settling(u) EXCEPT !.success = TRUE],
                   MapIds(L, {SerialItem(u).id}, SetErrorPlain), env)

\* StartSerial with a slip: the loop starts at the second item.
StartSerialSecond ==
  /\ LET r == Len(runs) + 1
         M == SerialOuter([NewRun(r, Len(controllers) + 1) EXCEPT !.i = 1],
                          NewLedger, FreshEnv)
     IN CommitStart(M, RunEvent("start", r, M, {}, {}, << >>))
  /\ UNCHANGED <<tasks, requests>>

\* lines 102-163
StartSerial ==
  /\ LET r == Len(runs) + 1
         M == SerialOuter(NewRun(r, Len(controllers) + 1), NewLedger,
                          FreshEnv)
     IN CommitStart(M, RunEvent("start", r, M, {}, {}, << >>))
  /\ UNCHANGED <<tasks, requests>>

\* line 159 resolves; line 165 throws "Aborted" into the catch block
SerialGenResolve(r) ==
  /\ runs[r].pc = "gen"
  /\ LET u == runs[r]
         M == IF Aborted THEN SerialCatch(u, results, Env, SAborted)
              ELSE Suspend(u, "proc", results, {})
     IN Commit(r, M, RunEvent("gen", r, M, {SerialItem(u).id}, {}, << >>))
  /\ UNCHANGED <<tasks, requests>>

\* line 159 rejects
SerialGenReject(r, m) ==
  /\ runs[r].pc = "gen"
  /\ LET u == runs[r]
         msg == OrElse(m, << >>)
         M == SerialCatch(Failing(u, msg), results, Env, msg)
     IN Commit(r, M, RunEvent("genFailed", r, M, {SerialItem(u).id}, {},
                              << >>))
  /\ UNCHANGED <<tasks, requests>>

\* line 168 resolves, lines 171-180
SerialProcResolve(r) ==
  /\ runs[r].pc = "proc"
  /\ LET u == runs[r]
         F(e) == SetSuccess(e, SingleImage(u.id, SerialItem(u).id, 0))
         M == SerialInner([Settling(u) EXCEPT !.success = TRUE],
                          MapIds(results, {SerialItem(u).id}, F), Env)
     IN Commit(r, M, RunEvent("success", r, M, {SerialItem(u).id}, {}, << >>))
  /\ UNCHANGED <<tasks, requests>>

\* line 168 rejects
SerialProcReject(r, m) ==
  /\ runs[r].pc = "proc"
  /\ LET u == runs[r]
         msg == OrElse(m, << >>)
         M == SerialCatch(Failing(u, msg), results, Env, msg)
     IN Commit(r, M, RunEvent("procFailed", r, M, {SerialItem(u).id}, {},
                              << >>))
  /\ UNCHANGED <<tasks, requests>>

\* line 190 resolves, line 191
SerialCooldownEnd(r) ==
  /\ runs[r].pc = "cooldown"
  /\ LET u == runs[r]
         M == SerialInner([u EXCEPT !.retryCount = u.retryCount + 1,
                                    !.waits = @ + 1],
                          results, Env)
     IN Commit(r, M, RunEvent("cooled", r, M, {SerialItem(u).id}, {}, << >>))
  /\ UNCHANGED <<tasks, requests>>

\* line 219 resolves, line 222
SerialPaceEnd(r) ==
  /\ runs[r].pc = "pace"
  /\ LET u == runs[r]
         M == SerialOuter([u EXCEPT !.i = u.i + 1], results, Env)
     IN Commit(r, M, RunEvent("paced", r, M, {}, {}, << >>))
  /\ UNCHANGED <<tasks, requests>>

SerialNext ==
  \/ StartSerial
  \/ \E r \in 1..Len(runs) : SerialGenResolve(r)
  \/ \E r \in 1..Len(runs) : \E m \in CallErrors : SerialGenReject(r, m)
  \/ \E r \in 1..Len(runs) : SerialProcResolve(r)
  \/ \E r \in 1..Len(runs) : \E m \in ProcessErrors : SerialProcReject(r, m)
  \/ \E r \in 1..Len(runs) : SerialCooldownEnd(r)
  \/ \E r \in 1..Len(runs) : SerialPaceEnd(r)
  \/ Common("serial", MaxPlanSerial)

AppSpecInit == RwInit /\ AppInit

SpecSerial == AppSpecInit /\ [][SerialNext]_vars

\* the request, processing call or wait that run r awaits returns
SerialStep(r) ==
  /\ r \in 1..Len(runs)
  /\ \/ SerialGenResolve(r)
     \/ \E m \in CallErrors : SerialGenReject(r, m)
     \/ SerialProcResolve(r)
     \/ \E m \in ProcessErrors : SerialProcReject(r, m)
     \/ SerialCooldownEnd(r)
     \/ SerialPaceEnd(r)

\* every call and wait of every run returns
SpecSerialFair ==
  SpecSerial /\ \A r \in 1..(MaxClicks \div 2) : WF_vars(SerialStep(r))

(***************************************************************************)
(* Grid strategy, v2.1.1 (part_000:427-540).                               *)
(***************************************************************************)
GRID_BATCH_SIZE == 4

\* "生成失敗", the message used when the error has none (line 516)
DefaultErrMsg == <<"g","e","n","e","r","a","t","i","o","n"," ","f","a","i","l","e","d">>

GridRateLimited(msg) == Includes(msg, S429) \/ Includes(msg, SExhausted)

\* the positions in the plan of state.stickerPlan.slice(i, i + BATCH_SIZE)
BatchPositions(u, size) ==
  {k \in 1..Len(u.plan) : u.i + 1 <= k /\ k <= u.i + size}

\* batchIds
GridBatchIds(u) == {u.plan[k].id : k \in BatchPositions(u, GRID_BATCH_SIZE)}

\* sliceImageGrid(gridBase64, n): the first n quadrants in reading order.  A
\* grid image is identified by the run and the batch start of its request.
SliceImageGrid(run, start, n) ==
  [q \in 1..n |-> [kind |-> "slice", run |-> run, item |-> start, n |-> q,
                   png |-> FALSE]]

\* GridSuccess with a slip: a batch of fewer than 4 items is not written.
GridSuccessFullOnly(u, L) ==
  LET slices == SliceImageGrid(u.id, u.i,
                               Cardinality(BatchPositions(u, GRID_BATCH_SIZE)))
      Found(id) == {q \in 1..Len(slices) : u.plan[u.i + q].id = id}
      First(id) == CHOOSE q \in Found(id) : \A p \in Found(id) : q <= p
  IN [k \in 1..Len(L) |->
        IF Found(L[k].id) # {} /\ Len(slices) = GRID_BATCH_SIZE
        THEN SetSuccess(L[k], slices[First(L[k].id)])
        ELSE L[k]]

\* lines 488-510: processedResults and the success updater.  Slice idx
\* belongs to currentBatch[idx].
GridSuccess(u, L) ==
  LET slices == SliceImageGrid(u.id, u.i,
                               Cardinality(BatchPositions(u, GRID_BATCH_SIZE)))
      Found(id) == {q \in 1..Len(slices) : u.plan[u.i + q].id = id}
      First(id) == CHOOSE q \in Found(id) : \A p \in Found(id) : q <= p
  IN [k \in 1..Len(L) |->
        IF Found(L[k].id) # {}
        THEN SetSuccess(L[k], slices[First(L[k].id)])
        ELSE L[k]]

RECURSIVE GridOuter(_, _, _)

\* lines 532-538
GridAfter(u, L, env) ==
  IF u.i + GRID_BATCH_SIZE < Len(u.plan)
  THEN Suspend(u, "pace", L, {})
  ELSE GridOuter([u EXCEPT !.i = u.i + GRID_BATCH_SIZE], L, env)

\* lines 455-479: the top of the batch loop, up to the request
GridOuter(u, L, env) ==
  IF ~(u.i < Len(u.plan)) THEN Suspend(u, "done", L, {})
  ELSE IF ~env.mounted \/ env.aborted THEN Suspend(u, "stopped", L, {})
  ELSE Suspend([u EXCEPT !.calls = @ + 1], "grid",
               MapIds(L, GridBatchIds(u), SetGenerating), GridBatchIds(u))

\* GridCatch with a slip: only the first member of the batch is marked.
GridCatchFirstOnly(u, L, env, m) ==
  IF env.aborted THEN Suspend(u, "stopped", L, {})
  ELSE LET errMsg == OrElse(m, DefaultErrMsg)
           F(e) == SetErrorMsg(e, errMsg)
           L1 == MapIds(L, {u.plan[u.i + 1].id}, F)
       IN IF GridRateLimited(errMsg) THEN Suspend(u, "quota", L1, {})
          ELSE GridAfter(u, L1, env)

\* lines 512-530: the catch block
GridCatch(u, L, env, m) ==
  IF env.aborted THEN Suspend(u, "stopped", L, {})
  ELSE LET errMsg == OrElse(m, DefaultErrMsg)
           F(e) == SetErrorMsg(e, errMsg)
           L1 == MapIds(L, GridBatchIds(u), F)
       IN IF GridRateLimited(errMsg) THEN Suspend(u, "quota", L1, {})
          ELSE GridAfter(u, L1, env)

\* lines 427-479
StartGrid ==
  /\ LET r == Len(runs) + 1
         M == GridOuter(NewRun(r, Len(controllers) + 1), NewLedger, FreshEnv)
     IN CommitStart(M, RunEvent("start", r, M, {}, {}, << >>))
  /\ UNCHANGED <<tasks, requests>>

\* line 475 resolves; line 481 throws "Aborted" into the catch block.
\* Otherwise sliceImageGrid and the processStickerImage calls are awaited;
\* no ref is read between them, so they are one await here.
GridResolve(r) ==
  /\ runs[r].pc = "grid"
  /\ LET u == runs[r]
         M == IF Aborted THEN GridCatch(u, results, Env, SAborted)
              ELSE Suspend(u, "proc", results, {})
     IN Commit(r, M, RunEvent("grid", r, M, GridBatchIds(u), {}, << >>))
  /\ UNCHANGED <<tasks, requests>>

\* GridReject with a slip: the first failed call of a run is issued again.
GridRejectReissue(r, m) ==
  /\ runs[r].pc = "grid"
  /\ LET u == runs[r]
         M == IF ~u.failed /\ ~Aborted
              THEN Suspend([u EXCEPT !.failed = TRUE, !.calls = @ + 1], "grid",
                           results, GridBatchIds(u))
              ELSE GridCatch([u EXCEPT !.failed = TRUE,
                                       !.fatal = @ \/ m \in CredentialErrors],
                             results, Env, m)
     IN Commit(r, M, RunEvent("gridFailed", r, M, GridBatchIds(u),
                              GridBatchIds(u) \cap SuccessIds(results),
                              OrElse(m, DefaultErrMsg)))
  /\ UNCHANGED <<tasks, requests>>

\* line 475 rejects
GridReject(r, m) ==
  /\ runs[r].pc = "grid"
  /\ LET u == runs[r]
         M == GridCatch([u EXCEPT !.failed = TRUE,
                                  !.fatal = @ \/ m \in CredentialErrors],
                        results, Env, m)
     IN Commit(r, M, RunEvent("gridFailed", r, M, GridBatchIds(u),
                              GridBatchIds(u) \cap SuccessIds(results),
                              OrElse(m, DefaultErrMsg)))
  /\ UNCHANGED <<tasks, requests>>

\* lines 484-510: slicing and processing resolve
GridProcResolve(r) ==
  /\ runs[r].pc = "proc"
  /\ LET u == runs[r]
         n == Cardinality(BatchPositions(u, GRID_BATCH_SIZE))
         M == GridAfter([u EXCEPT !.procs = @ + n], GridSuccess(u, results),
                        Env)
     IN Commit(r, M, RunEvent("success", r, M, GridBatchIds(u), {}, << >>))
  /\ UNCHANGED <<tasks, requests>>

\* lines 484-498: slicing or processing rejects
GridProcReject(r, m) ==
  /\ runs[r].pc = "proc"
  /\ LET u == runs[r]
         M == GridCatch([u EXCEPT !.failed = TRUE], results, Env, m)
     IN Commit(r, M, RunEvent("procFailed", r, M, GridBatchIds(u),
                              GridBatchIds(u) \cap SuccessIds(results),
                              OrElse(m, DefaultErrMsg)))
  /\ UNCHANGED <<tasks, requests>>

\* line 528 resolves
GridQuotaEnd(r) ==
  /\ runs[r].pc = "quota"
  /\ LET M == GridAfter(runs[r], results, Env)
     IN Commit(r, M, RunEvent("resumed", r, M, {}, {}, << >>))
  /\ UNCHANGED <<tasks, requests>>

\* GridPaceEnd with a slip: the loop advances by one item less than a batch.
GridPaceEndShort(r) ==
  /\ runs[r].pc = "pace"
  /\ LET u == runs[r]
         M == GridOuter([u EXCEPT !.i = u.i + GRID_BATCH_SIZE - 1], results,
                        Env)
     IN Commit(r, M, RunEvent("paced", r, M, {}, {}, << >>))
  /\ UNCHANGED <<tasks, requests>>

\* line 535 resolves, line 538
GridPaceEnd(r) ==
  /\ runs[r].pc = "pace"
  /\ LET u == runs[r]
         M == GridOuter([u EXCEPT !.i = u.i + GRID_BATCH_SIZE], results, Env)
     IN Commit(r, M, RunEvent("paced", r, M, {}, {}, << >>))
  /\ UNCHANGED <<tasks, requests>>

\* what generateStickerGrid is taken to reject with
GridCallErrors == CallErrors \cup CredentialErrors

GridNext ==
  \/ StartGrid
  \/ \E r \in 1..Len(runs) : GridResolve(r)
  \/ \E r \in 1..Len(runs) : \E m \in GridCallErrors : GridReject(r, m)
  \/ \E r \in 1..Len(runs) : GridProcResolve(r)
  \/ \E r \in 1..Len(runs) : \E m \in ProcessErrors : GridProcReject(r, m)
  \/ \E r \in 1..Len(runs) : GridQuotaEnd(r)
  \/ \E r \in 1..Len(runs) : GridPaceEnd(r)
  \/ Common("grid", MaxPlanGrid)

SpecGrid == AppSpecInit /\ [][GridNext]_vars

(***************************************************************************)
(* Small-parallel strategy, v2.0.1 (part_001:101-200).  The members of a   *)
(* batch run as tasks [run, id, n, pc]: the callback passed to batch.map   *)
(* for item id in attempt n (the retryCount at launch) of that run,        *)
(* suspended at generateSingleStickerImage ("gen") or processStickerImage  *)
(* ("proc").  Promise.all settles with the first rejection or the last     *)
(* fulfilment; the tasks it no longer waits for keep running.              *)
(***************************************************************************)
PARALLEL_BATCH_SIZE == 3
PARALLEL_TRIES == 3

ParRetryable(msg) ==
  \/ Includes(msg, S429)
  \/ Includes(msg, SExhausted)
  \/ Includes(msg, SQuota)

\* the ids of batch
ParBatchIds(u) == {u.plan[k].id : k \in BatchPositions(u, PARALLEL_BATCH_SIZE)}

RECURSIVE ParOuter(_, _, _), ParInner(_, _, _)

\* lines 194-198
ParAfter(u, L, env) ==
  IF u.i + PARALLEL_BATCH_SIZE < Len(u.plan)
  THEN Suspend(u, "pace", L, {})
  ELSE ParOuter([u EXCEPT !.i = u.i + PARALLEL_BATCH_SIZE], L, env)

\* lines 143-169: the top of the retry loop, up to the requests.  A member
\* whose entry is success in state.results returns without a request; when
\* all do, Promise.all is fulfilled at once.
ParInner(u, L, env) ==
  IF ~(~u.success /\ u.retryCount < PARALLEL_TRIES) THEN ParAfter(u, L, env)
  ELSE IF env.aborted THEN ParAfter(u, L, env)
  ELSE IF ParBatchIds(u) \ u.seen = {}
       THEN ParAfter([u EXCEPT !.success = TRUE], L, env)
       ELSE Suspend(u, "batch", L, ParBatchIds(u) \ u.seen)

\* lines 127-141: the top of the batch loop
ParOuter(u, L, env) ==
  IF ~(u.i < Len(u.plan)) THEN Suspend(u, "done", L, {})
  ELSE IF ~env.mounted \/ env.aborted THEN Suspend(u, "stopped", L, {})
  ELSE ParInner([u EXCEPT !.success = FALSE, !.retryCount = 0],
                MapIds(L, ParBatchIds(u), SetGenerating), env)

\* lines 173-191: the catch block
ParCatch(u, L, env, msg) ==
  IF env.aborted THEN ParAfter(u, L, env)
  ELSE IF ParRetryable(msg) THEN Suspend(u, "cooldown", L, {})
  ELSE ParInner([u EXCEPT !.success = TRUE],
                MapIds(L, ParBatchIds(u), SetErrorPlain), env)

\* the kind of step the catch block takes
ParCatchKind(env, msg) ==
  IF env.aborted THEN "batchAborted"
  ELSE IF ParRetryable(msg) THEN "batchRetryable" ELSE "batchFailed"

\* the tasks batch.map starts in configuration M of run r
Launch(r, M) ==
  IF M.run.pc = "batch"
  THEN {[run |-> r, id |-> id, n |-> M.run.retryCount, pc |-> "gen"] :
           id \in M.issued}
  ELSE {}

\* the requests of the launched tasks are issued
Issue(launched) ==
  /\ requests + Cardinality(launched) <= MaxRequests
  /\ requests' = requests + Cardinality(launched)

\* Promise.all of t's run is pending and t is one of its promises
Live(t) ==
  /\ runs[t.run].pc = "batch"
  /\ runs[t.run].retryCount = t.n
  /\ t.id \in ParBatchIds(runs[t.run])

\* every other promise of that Promise.all is fulfilled
LastLive(t) ==
  /\ Live(t)
  /\ \A s \in tasks \ {t} : s.run = t.run => ~Live(s)

\* the run is not resumed by the step
Idle(u, L) == [run |-> u, L |-> L, issued |-> {}]

\* the frame of a step of task t that ends in configuration M
CommitTask(t, keep, M, ev) ==
  /\ tasks' = (tasks \ {t}) \cup keep \cup Launch(t.run, M)
  /\ Issue(Launch(t.run, M))
  /\ Commit(t.run, M, ev)

\* lines 101-147
StartParallel ==
  LET r == Len(runs) + 1
      M == ParOuter(NewRun(r, Len(controllers) + 1), NewLedger, FreshEnv)
  IN /\ CommitStart(M, RunEvent("start", r, M, {}, {}, << >>))
     /\ tasks' = tasks \cup Launch(r, M)
     /\ Issue(Launch(r, M))

\* a member's rejection: Promise.all rejects if it is pending
MemberRejects(t, msg) ==
  LET u == runs[t.run]
      M == IF Live(t) THEN ParCatch(u, results, Env, msg) ELSE Idle(u, results)
      kind == IF Live(t) THEN ParCatchKind(Env, msg) ELSE "memberFailed"
      ids == IF kind = "batchFailed" THEN ParBatchIds(u) ELSE {}
  IN CommitTask(t, {}, M,
                RunEvent(kind, t.run, M, ids, ids \cap SuccessIds(results),
                         << >>))

\* line 151 resolves; line 157 throws "Aborted"
MemberGenResolve(t) ==
  /\ t \in tasks /\ t.pc = "gen"
  /\ IF Aborted THEN MemberRejects(t, SAborted)
     ELSE LET M == Idle(runs[t.run], results)
          IN CommitTask(t, {[t EXCEPT !.pc = "proc"]}, M,
                        RunEvent("memberGen", t.run, M, {}, {}, << >>))

\* line 151 rejects
MemberGenReject(t, m) ==
  /\ t \in tasks /\ t.pc = "gen"
  /\ MemberRejects(t, OrElse(m, << >>))

\* MemberProcResolve with a slip: the updater matches every member of the
\* batch instead of r.id === item.id.
MemberProcResolveBatch(t) ==
  /\ t \in tasks /\ t.pc = "proc"
  /\ LET u == runs[t.run]
         F(e) == SetSuccess(e, SingleImage(t.run, t.id, t.n))
         L1 == MapIds(results, ParBatchIds(u) \cup {t.id}, F)
         M == IF LastLive(t)
              THEN ParInner([u EXCEPT !.success = TRUE], L1, Env)
              ELSE Idle(u, L1)
     IN CommitTask(t, {}, M,
                   RunEvent(IF t.n > 0 THEN "retrySuccess" ELSE "memberSuccess",
                            t.run, M, {},
                            IF t.n > 0 THEN {t.id} \cap SuccessIds(results)
                            ELSE {}, << >>))

\* line 159 resolves, lines 161-168; line 171 when it is the last member
MemberProcResolve(t) ==
  /\ t \in tasks /\ t.pc = "proc"
  /\ LET u == runs[t.run]
         F(e) == SetSuccess(e, SingleImage(t.run, t.id, t.n))
         L1 == MapIds(results, {t.id}, F)
         M == IF LastLive(t)
              THEN ParInner([u EXCEPT !.success = TRUE], L1, Env)
              ELSE Idle(u, L1)
     IN CommitTask(t, {}, M,
                   RunEvent(IF t.n > 0 THEN "retrySuccess" ELSE "memberSuccess",
                            t.run, M, {},
                            IF t.n > 0 THEN {t.id} \cap SuccessIds(results)
                            ELSE {}, << >>))

\* line 159 rejects
MemberProcReject(t, m) ==
  /\ t \in tasks /\ t.pc = "proc"
  /\ MemberRejects(t, OrElse(m, << >>))

\* line 179 resolves, line 180
ParCooldownEnd(r) ==
  /\ runs[r].pc = "cooldown"
  /\ LET u == [runs[r] EXCEPT !.retryCount = runs[r].retryCount + 1]
         M == ParInner(u, results, Env)
         kind == IF u.retryCount >= PARALLEL_TRIES THEN "exhausted"
                 ELSE IF Aborted THEN "retryAborted" ELSE "retry"
         ids == IF kind = "retryAborted" THEN {} ELSE ParBatchIds(u)
     IN /\ Commit(r, M, RunEvent(kind, r, M, ids,
                                 ids \cap SuccessIds(results), << >>))
        /\ tasks' = tasks \cup Launch(r, M)
        /\ Issue(Launch(r, M))

\* line 195 resolves, line 198
ParPaceEnd(r) ==
  /\ runs[r].pc = "pace"
  /\ LET u == runs[r]
         M == ParOuter([u EXCEPT !.i = u.i + PARALLEL_BATCH_SIZE], results, Env)
     IN /\ Commit(r, M, RunEvent("paced", r, M, {}, {}, << >>))
        /\ tasks' = tasks \cup Launch(r, M)
        /\ Issue(Launch(r, M))

ParallelNext ==
  \/ StartParallel
  \/ \E t \in tasks : MemberGenResolve(t)
  \/ \E t \in tasks : \E m \in CallErrors : MemberGenReject(t, m)
  \/ \E t \in tasks : MemberProcResolve(t)
  \/ \E t \in tasks : \E m \in ProcessErrors : MemberProcReject(t, m)
  \/ \E r \in 1..Len(runs) : ParCooldownEnd(r)
  \/ \E r \in 1..Len(runs) : ParPaceEnd(r)
  \/ Common("parallel", MaxPlanParallel)

SpecParallel == AppSpecInit /\ [][ParallelNext]_vars

RetryInit == RwInit /\ AppInit

SpecRetry == RetryInit /\ [][RetryNext]_vars

(***************************************************************************)
(* One generateStickerGrid request of a grid run (part_000:470-481), served *)
(* by the activation rw of retryWithModelFallback (part_003:163-247), with  *)
(* the operator free to cancel while it is in flight.  The behaviour starts *)
(* where handleStartGeneration has issued the request of its first batch.   *)
(***************************************************************************)
CallInit ==
  /\ RwInit
  /\ \E n \in 1..MaxPlanCall :
        LET plan == PlanOf(n)
            u == [id |-> 1, ctrl |-> 1, cancelledAt |-> "", pc |-> "start",
                  i |-> 0, retryCount |-> 0, success |-> FALSE, plan |-> plan,
                  seen |-> {}, calls |-> 0, procs |-> 0, failed |-> FALSE,
                  fatal |-> FALSE, attempts |-> 0, fails |-> 0, waits |-> 0,
                  tried |-> {}, settled |-> {}]
            M == GridOuter(u, InitialResults(plan), FreshEnv)
        IN /\ stickerPlan = plan
           /\ results = M.L
           /\ runs = <<M.run>>
           /\ event = [kind |-> "start", run |-> 1, wrote |-> TRUE,
                       issued |-> M.issued, ids |-> {}, prev |-> {},
                       msg |-> << >>]
  /\ apiKey = ValidKey
  /\ LibIdle
  /\ step = "generating"
  /\ isThinking = FALSE
  /\ abortControllerRef = 1
  /\ controllers = <<FALSE>>
  /\ isMounted = TRUE
  /\ tasks = {}
  /\ regens = {}
  /\ planCalls = 0
  /\ clicks = 2
  /\ requests = 0

\* the wrapper is working on the request of run r
CallPending(r) == runs[r].pc = "grid" /\ rw.pc \in {"call", "wait"}

\* line 475: the awaited promise is fulfilled with the wrapper's result
CallReturns ==
  /\ rw.pc = "returned"
  /\ GridResolve(1)

\* line 475: the awaited promise is rejected with the error the wrapper threw
CallThrows ==
  /\ rw.pc = "thrown"
  /\ GridReject(1, rw.thrown.message)

CallNext ==
  \/ CallPending(1) /\ OperationResolves
  \/ CallPending(1) /\ \E m \in ErrorMessages : OperationRejects(m)
  \/ CallPending(1) /\ WaitElapses
  \/ CallReturns
  \/ CallThrows
  \/ CancelGeneration
  \/ Unmount

SpecCall == CallInit /\ [][CallNext]_vars

(***************************************************************************)
(* One call of a function of geminiService (part_003:93-338) under any     *)
(* value of the key.  rw.fn is the function called; rw.pc is "entry" when  *)
(* the function has not run yet and "request" while generateStickerPlan    *)
(* awaits its one generateContent request.  The two image functions hand   *)
(* their request to retryWithModelFallback.  For generateStickerPlan the   *)
(* caller, handleGeneratePlan, is part of the model.                       *)
(***************************************************************************)
FnPlan == "generateStickerPlan"
ServiceFns == {FnPlan, "generateStickerGrid", "generateSingleStickerImage"}

PLAN_MODEL == "gemini-2.5-flash"

S400 == <<"4","0","0">>
SApiKeyLower == <<"A","P","I"," ","k","e","y">>
\* line 153, rendered in English
MsgKeyInvalid == MsgApiKey \o <<" ","i","n","v","a","l","i","d">>

\* lines 150-155: the catch block of generateStickerPlan
PlanCatch(m) ==
  IF m # Undefined /\ (Includes(m, S400) \/ Includes(m, SApiKeyLower))
  THEN MsgKeyInvalid
  ELSE m

KeyInit ==
  /\ apiKey \in Keys
  /\ LibIdle
  /\ \E f \in ServiceFns :
        rw = [pc |-> "entry", fn |-> f, model |-> 1, attempt |-> 1,
              lastError |-> NoErr, thrown |-> NoErr, log |-> << >>]
  /\ AppStart

\* the operator submits the setup form
PlanClick ==
  /\ rw.fn = FnPlan /\ rw.pc = "entry" /\ planCalls = 0
  /\ GeneratePlanStart

\* lines 97, 168, 257: const ai = getAI(), up to the first request
ServiceEnter ==
  /\ rw.pc = "entry"
  /\ rw.fn = FnPlan => planCalls > 0
  /\ LET ai == GetAI(apiKey)
     IN rw' =
          IF ~ai.ok
          THEN [rw EXCEPT !.pc = "thrown",
                          !.thrown = [message |-> ai.message, n |-> 0]]
          ELSE IF rw.fn = FnPlan
               THEN [rw EXCEPT !.pc = "request",
                               !.log = <<LogEntry("call", PLAN_MODEL, 1,
                                                  << >>, 0)>>]
               ELSE [rw EXCEPT !.pc = "call",
                               !.log = <<LogEntry("call", IMAGE_MODELS[1], 1,
                                                  << >>, 0)>>]
  /\ UNCHANGED appVars

\* lines 119-149: the request resolves and the response parses
PlanRequestResolves ==
  /\ rw.pc = "request"
  /\ rw' = [rw EXCEPT !.pc = "returned",
                      !.log = Append(@, LogEntry("ok", PLAN_MODEL, 1, << >>,
                                                 0))]
  /\ UNCHANGED appVars

\* lines 119-155: the request rejects, or the response does not parse
PlanRequestRejects(m) ==
  /\ rw.pc = "request"
  /\ rw' = [rw EXCEPT !.pc = "thrown",
                      !.thrown = [message |-> PlanCatch(m), n |-> 1],
                      !.log = Append(@, LogEntry("fail", PLAN_MODEL, 1,
                                                 OrElse(m, << >>), 0))]
  /\ UNCHANGED appVars

\* part_000:382-386
PlanHandlerResolve ==
  /\ rw.fn = FnPlan /\ rw.pc = "returned"
  /\ \E n \in 1..MaxPlanCall : GeneratePlanResolve(n)

\* part_000:387-392
PlanHandlerReject ==
  /\ rw.fn = FnPlan /\ rw.pc = "thrown"
  /\ GeneratePlanReject

KeyNext ==
  \/ PlanClick
  \/ ServiceEnter
  \/ PlanRequestResolves
  \/ \E m \in ErrorMessages : PlanRequestRejects(m)
  \/ PlanHandlerResolve
  \/ PlanHandlerReject
  \/ OperationResolves
  \/ \E m \in ErrorMessages : OperationRejects(m)
  \/ WaitElapses

SpecKey == KeyInit /\ [][KeyNext]_vars

(***************************************************************************)
(* handleDownloadAll of ResultsGrid (src/components/ResultsGrid.tsx:24-54). *)
(* The stickers prop is state.results; zip.files is the content of the     *)
(* JSZip folder, one record per file name; zip.resized counts the resized  *)
(* variants that were created (history).                                   *)
(***************************************************************************)
Digits == <<"0", "1", "2", "3", "4", "5", "6", "7", "8", "9">>

\* the decimal digits a template literal gives a non-negative integer
RECURSIVE NumberToString(_)
NumberToString(n) ==
  IF n < 10 THEN <<Digits[n + 1]>>
  ELSE NumberToString(n \div 10) \o <<Digits[(n % 10) + 1]>>

SStickerPrefix == <<"s","t","i","c","k","e","r","_">>
SPng == <<".","p","n","g">>
SMainPng == <<"m","a","i","n">> \o SPng
STabPng == <<"t","a","b">> \o SPng

\* `sticker_${sticker.id + 1}.png`
StickerFileNameZeroBased(id) == SStickerPrefix \o NumberToString(id) \o SPng

\* `sticker_${sticker.id + 1}.png`
StickerFileName(id) == SStickerPrefix \o NumberToString(id + 1) \o SPng

\* url.split(',')[1]: the base64 payload of a data URL
Base64Of(url) == [base64 |-> url]

\* createResizedVariant, when it resolves: the image drawn at w x h
CreateResizedVariant(url, w, h) ==
  [kind |-> "resized", of |-> url, width |-> w, height |-> h]

\* folder.file(name, data): a file of the same name is replaced
PutFile(files, name, data) ==
  {f \in files : f.name # name} \cup {[name |-> name, data |-> data]}

\* s => s.processedUrl
HasProcessedUrl(s) == s.processedUrl # NoImage

\* s => s.status === 'success' && s.processedUrl
IsSuccessSticker(s) == s.status = "success" /\ s.processedUrl # NoImage

SuccessStickers(stickers) == SelectSeq(stickers, IsSuccessSticker)

\* successStickers.forEach(...) of lines 30-35
RECURSIVE AddStickers(_, _)
AddStickers(files, list) ==
  IF list = << >> THEN files
  ELSE AddStickers(
         IF HasProcessedUrl(Head(list))
         THEN PutFile(files, StickerFileName(Head(list).id),
                      Base64Of(Head(list).processedUrl))
         ELSE files,
         Tail(list))

\* the entries a ledger can hold for an id: a pending entry has no image, a
\* success entry has both, a generating or error entry has them when it was
\* success before
LedgerEntries(id) ==
  LET img == SingleImage(1, id, 0)
      with(st) == [id |-> id, status |-> st, imageUrl |-> img,
                   processedUrl |-> ProcessStickerImage(img), error |-> NoError]
      without(st) == [id |-> id, status |-> st, imageUrl |-> NoImage,
                      processedUrl |-> NoImage, error |-> NoError]
  IN {without("pending"), without("generating"), with("generating"),
      without("error"), with("error"), with("success")}

Ledgers ==
  UNION {{L \in [1..n -> UNION {LedgerEntries(id) : id \in 0..(n - 1)}] :
            \A k \in 1..n : L[k].id = k - 1} : n \in 1..MaxStickers}

\* the results screen showing some ledger
ZipInit ==
  /\ RwInit
  /\ apiKey = ValidKey
  /\ ImageIdle
  /\ ZipIdle
  /\ ResponseIdle
  /\ step = "generating"
  /\ \E L \in Ledgers : results = L /\ stickerPlan = PlanOf(Len(L))
  /\ isThinking = FALSE
  /\ abortControllerRef = 0
  /\ controllers = << >>
  /\ isMounted = TRUE
  /\ runs = << >>
  /\ tasks = {}
  /\ regens = {}
  /\ planCalls = 0
  /\ clicks = 0
  /\ requests = 0
  /\ event = NoEvent

\* DownloadAll with a slip: the button is rendered while isGenerating too.
DownloadAllWhileGenerating ==
  /\ zip.pc \in {"idle", "done"}
  /\ step \in {"generating", "complete"}
  /\ SuccessIds(results) # {}
  /\ LET successStickers == SuccessStickers(results)
     IN zip' = [pc |-> IF Len(successStickers) > 0 THEN "main" ELSE "generate",
                stickers |-> successStickers,
                files |-> AddStickers({}, successStickers),
                resized |-> 0]
  /\ UNCHANGED <<rw, apiKey, imageData, response, reactVars>>

\* ResultsGrid is rendered (part_000:622), the download button is rendered
\* (lines 84, 100) and pressed: lines 25-38
DownloadAll ==
  /\ zip.pc \in {"idle", "done"}
  /\ step \in {"generating", "complete"}
  /\ ~IsGenerating(results)
  /\ SuccessIds(results) # {}
  /\ LET successStickers == SuccessStickers(results)
     IN zip' = [pc |-> IF Len(successStickers) > 0 THEN "main" ELSE "generate",
                stickers |-> successStickers,
                files |-> AddStickers({}, successStickers),
                resized |-> 0]
  /\ UNCHANGED <<rw, apiKey, imageData, response, reactVars>>

\* lines 41-42: the first variant is created
MainResolves ==
  /\ zip.pc = "main"
  /\ zip' = [zip EXCEPT
               !.pc = "tab",
               !.files = PutFile(zip.files, SMainPng,
                           Base64Of(CreateResizedVariant(
                              zip.stickers[1].processedUrl, 240, 240))),
               !.resized = 1]
  /\ UNCHANGED <<rw, apiKey, imageData, response, reactVars>>

\* lines 44-45: the second variant is created
TabResolves ==
  /\ zip.pc = "tab"
  /\ zip' = [zip EXCEPT
               !.pc = "generate",
               !.files = PutFile(zip.files, STabPng,
                           Base64Of(CreateResizedVariant(
                              zip.stickers[1].processedUrl, 96, 74))),
               !.resized = 2]
  /\ UNCHANGED <<rw, apiKey, imageData, response, reactVars>>

\* lines 47-49: createResizedVariant rejects (img.onerror, or no 2d context)
\* and the catch block logs it
ResizeRejects ==
  /\ zip.pc \in {"main", "tab"}
  /\ zip' = [zip EXCEPT !.pc = "generate"]
  /\ UNCHANGED <<rw, apiKey, imageData, response, reactVars>>

\* lines 52-53: the archive is generated and handed to downloadBlob
GenerateArchive ==
  /\ zip.pc = "generate"
  /\ zip' = [zip EXCEPT !.pc = "done"]
  /\ UNCHANGED <<rw, apiKey, imageData, response, reactVars>>

ZipNext ==
  \/ DownloadAll
  \/ MainResolves
  \/ TabResolves
  \/ ResizeRejects
  \/ GenerateArchive

SpecZip == ZipInit /\ [][ZipNext]_vars

\* the results screen with its controls (part_000:622-630): download,
\* regenerate, cancel and reset
ResultsNext ==
  \/ ZipNext
  \/ CancelGeneration
  \/ Reset
  \/ \E id \in 0..(MaxStickers - 1) : RegenerateStart(id)
  \/ \E g \in regens : RegenGenResolve(g)
  \/ \E g \in regens : \E m \in CallErrors : RegenGenReject("grid", g, m)
  \/ \E g \in regens : RegenProcResolve(g)
  \/ \E g \in regens : \E m \in ProcessErrors : RegenProcReject("grid", g, m)

SpecResults == ZipInit /\ [][ResultsNext]_vars

(***************************************************************************)
(* The handling of a generateContent response by generateStickerGrid       *)
(* (src/unnamed/part_003:226-245) and generateSingleStickerImage           *)
(* (317-336).  A response holds at most one candidate here; a candidate    *)
(* has content parts or none, and a finish reason or none.                 *)
(***************************************************************************)
FnGrid == "generateStickerGrid"
FnSingle == "generateSingleStickerImage"

SImagePng == <<"i","m","a","g","e","/","p","n","g">>
SImageJpeg == <<"i","m","a","g","e","/","j","p","e","g">>
SStop == <<"S","T","O","P">>
SSafety == <<"S","A","F","E","T","Y">>
SImageSafety == <<"I","M","A","G","E","_">> \o SSafety
SMaxTokens == <<"M","A","X","_","T","O","K","E","N","S">>

\* candidates[0].finishReason: not set, or one of the reasons of the API
FinishReasons == {Undefined, SStop, SSafety, SImageSafety, SMaxTokens}

\* a part without inlineData
TextPart == [inline |-> FALSE, data |-> << >>, mimeType |-> << >>]
InlinePart(data, mimeType) ==
  [inline |-> TRUE, data |-> data, mimeType |-> mimeType]

\* the parts considered: text, inline data that is empty, an image without
\* a mime type and an image of another type
Parts ==
  {TextPart, InlinePart(<< >>, SImagePng), InlinePart(<<"Q">>, Undefined),
   InlinePart(<<"R">>, SImageJpeg)}

Candidates ==
  {[hasParts |-> FALSE, parts |-> << >>, finishReason |-> f] :
      f \in FinishReasons}
  \cup
  {[hasParts |-> TRUE, parts |-> ps, finishReason |-> f] :
      f \in FinishReasons,
      ps \in UNION {[1..n -> Parts] : n \in 0..MaxParts}}

\* `data:${mimeType || 'image/png'};base64,${data}`
DataUrl(part) ==
  <<"d","a","t","a",":">> \o OrElse(part.mimeType, SImagePng)
     \o <<";","b","a","s","e","6","4",",">> \o part.data

\* part.inlineData && part.inlineData.data
HasImageData(part) == part.inline /\ part.data \notin {Undefined, << >>}

\* the loop of lines 230-235 (321-326): the first part with image data
RECURSIVE FirstImage(_)
FirstImage(parts) ==
  IF parts = << >> THEN << >>
  ELSE IF HasImageData(Head(parts)) THEN DataUrl(Head(parts))
  ELSE FirstImage(Tail(parts))

\* lines 239 and 330, rendered in English
MsgBlocked(finishReason) ==
  <<"B","l","o","c","k","e","d"," ","(">> \o MsgSafety \o <<":"," ">>
     \o finishReason \o <<")">>

\* lines 241 and 332, rendered in English
MsgNoImageReturned(fn) ==
  IF fn = FnGrid THEN MsgNoImage
  ELSE MsgNoImage \o <<" ","(","N","o"," ","i","m","a","g","e"," ",
                       "g","e","n","e","r","a","t","e","d",")",".">>

\* lines 226-245 (317-336): the operation handed to the wrapper, from the
\* response on
ImageOfResponse(fn, candidates) ==
  LET partsResponse ==
        IF candidates # << >> /\ candidates[1].hasParts
        THEN candidates[1].parts ELSE << >>
      base64Image == FirstImage(partsResponse)
      finishReason ==
        IF candidates # << >> THEN candidates[1].finishReason ELSE Undefined
  IN IF base64Image = << >>
     THEN IF finishReason \notin {Undefined, << >>}
          THEN [ok |-> FALSE, value |-> << >>,
                message |-> MsgBlocked(finishReason)]
          ELSE [ok |-> FALSE, value |-> << >>,
                message |-> MsgNoImageReturned(fn)]
     ELSE [ok |-> TRUE, value |-> base64Image, message |-> << >>]

\* generateContent has resolved with some response
ResponseInit ==
  /\ RwInit
  /\ apiKey = ValidKey
  /\ ImageIdle
  /\ ZipIdle
  /\ AppStart
  /\ \E fn \in {FnGrid, FnSingle} :
        \E cs \in {<< >>} \cup {<<c>> : c \in Candidates} :
           response = [pc |-> "received", fn |-> fn, candidates |-> cs,
                       result |-> NoResult]

\* lines 243 and 335: the operation returns the image
ImageReturned ==
  /\ response.pc = "received"
  /\ LET res == ImageOfResponse(response.fn, response.candidates)
     IN /\ res.ok
        /\ response' = [response EXCEPT !.pc = "returned", !.result = res]
  /\ UNCHANGED <<rw, apiKey, imageData, zip, reactVars>>

\* lines 237-242 and 328-333: the operation throws
NoImageThrown ==
  /\ response.pc = "received"
  /\ LET res == ImageOfResponse(response.fn, response.candidates)
     IN /\ ~res.ok
        /\ response' = [response EXCEPT !.pc = "thrown", !.result = res]
  /\ UNCHANGED <<rw, apiKey, imageData, zip, reactVars>>

ResponseNext == ImageReturned \/ NoImageThrown

SpecResponse == ResponseInit /\ [][ResponseNext]_vars

(***************************************************************************)
(* The text plan: the list generateStickerPlan parses                      *)
(* (src/unnamed/part_003:142-149) and its edits in SetupForm               *)
(* (src/unnamed/part_002:52-74), which reach the state through             *)
(* handleUpdatePlan (part_000:396-398).  Here stickerPlan holds the whole  *)
(* items; PlanOf keeps their ids only.                                     *)
(***************************************************************************)
\* the items of the JSON list the model answers with
RawItems ==
  {[text_tc |-> <<"T">>, text_en |-> <<"e">>],
   [text_tc |-> <<"U">>, text_en |-> <<"f">>]}

ParsedLists == UNION {[1..n -> RawItems] : n \in 0..MaxPlanText}

\* the values typed into a caption field
NewTexts == {<< >>, <<"x">>}

\* `${tc} (${en})`
BothTexts(tc, en) == tc \o <<" ", "(">> \o en \o <<")">>

\* parsed.map with id: index + 1
ParsePlanOneBased(parsed) ==
  [k \in 1..Len(parsed) |->
     [id |-> k,
      text |-> BothTexts(parsed[k].text_tc, parsed[k].text_en),
      originalTc |-> parsed[k].text_tc,
      originalEn |-> parsed[k].text_en]]

\* parsed.map((item, index) => ({id: index, ...})) of part_003:144-149
ParsePlan(parsed) ==
  [k \in 1..Len(parsed) |->
     [id |-> k - 1,
      text |-> BothTexts(parsed[k].text_tc, parsed[k].text_en),
      originalTc |-> parsed[k].text_tc,
      originalEn |-> parsed[k].text_en]]

\* part_000:382-386 with the list generateStickerPlan returns
PlanParsed(parsed) ==
  /\ planCalls > 0
  /\ planCalls' = planCalls - 1
  /\ stickerPlan' = ParsePlan(parsed)
  /\ isThinking' = FALSE
  /\ event' = UserEvent("planned")
  /\ UNCHANGED <<rw, libVars, step, results, abortControllerRef, controllers,
                 isMounted, runs, tasks, requests, regens, clicks>>

\* handleTextChange(id, newText) of part_002:52-57, from the field of an
\* item of the plan (line 317), and handleUpdatePlan
HandleTextChange(id, newText) ==
  /\ isMounted /\ step = "setup"
  /\ InPlan(stickerPlan, id)
  /\ Click
  /\ stickerPlan' =
        [k \in 1..Len(stickerPlan) |->
           IF stickerPlan[k].id = id
           THEN [stickerPlan[k] EXCEPT !.text = newText]
           ELSE stickerPlan[k]]
  /\ event' = UserEvent("textChange")
  /\ UNCHANGED <<rw, libVars, step, results, isThinking, abortControllerRef,
                 controllers, isMounted, runs, tasks, requests, regens,
                 planCalls>>

\* handleLanguageSwitch(lang) of part_002:63-74, and handleUpdatePlan
HandleLanguageSwitch(lang) ==
  /\ isMounted /\ step = "setup"
  /\ Len(stickerPlan) # 0
  /\ Click
  /\ stickerPlan' =
        [k \in 1..Len(stickerPlan) |->
           [stickerPlan[k] EXCEPT !.text =
              IF lang = "tc" THEN stickerPlan[k].originalTc
              ELSE IF lang = "en" THEN stickerPlan[k].originalEn
              ELSE BothTexts(stickerPlan[k].originalTc,
                             stickerPlan[k].originalEn)]]
  /\ event' = UserEvent("languageSwitch")
  /\ UNCHANGED <<rw, libVars, step, results, isThinking, abortControllerRef,
                 controllers, isMounted, runs, tasks, requests, regens,
                 planCalls>>

PlanNext ==
  \/ GeneratePlanStart
  \/ \E parsed \in ParsedLists : PlanParsed(parsed)
  \/ GeneratePlanReject
  \/ \E id \in 0..(MaxPlanText - 1), t \in NewTexts : HandleTextChange(id, t)
  \/ \E lang \in {"tc", "en", "both"} : HandleLanguageSwitch(lang)

SpecPlan == AppSpecInit /\ [][PlanNext]_vars

(***************************************************************************)
(* The background-removal pass of processStickerImage                      *)
(* (src/services/geminiService.ts:197-213).  imageData.data is the flat    *)
(* array of bytes r, g, b, a of getImageData; orig is history, the array   *)
(* as it was read; i is the loop index.                                    *)
(***************************************************************************)
threshold == 240

\* the byte values considered: the threshold, its neighbours and the ends
Bytes == {0, 239, 240, 241, 255}

\* the body of the loop at index i (0-based): lines 204-211
RemoveWhiteAtInclusive(data, i) ==
  IF data[i + 1] >= threshold /\ data[i + 2] >= threshold
     /\ data[i + 3] >= threshold
  THEN [data EXCEPT ![i + 4] = 0]
  ELSE data

\* the body of the loop at index i (0-based): lines 204-211
RemoveWhiteAt(data, i) ==
  IF data[i + 1] > threshold /\ data[i + 2] > threshold
     /\ data[i + 3] > threshold
  THEN [data EXCEPT ![i + 4] = 0]
  ELSE data

PixelInit ==
  /\ RwInit
  /\ apiKey = ValidKey
  /\ ZipIdle
  /\ ResponseIdle
  /\ AppStart
  /\ \E n \in 1..MaxPixels :
        \E d \in [1..(4 * n) -> Bytes] :
           imageData = [orig |-> d, data |-> d, i |-> 0]

\* one pass of the loop of line 203
RemoveWhiteStep ==
  /\ imageData.i < Len(imageData.data)
  /\ imageData' = [imageData EXCEPT
                     !.data = RemoveWhiteAt(imageData.data, imageData.i),
                     !.i = imageData.i + 4]
  /\ UNCHANGED <<rw, apiKey, zip, response, reactVars>>

PixelNext == RemoveWhiteStep

SpecPixel == PixelInit /\ [][PixelNext]_vars

(***************************************************************************)
(* Properties of retryWithModelFallback, checked under SpecRetry.          *)
(***************************************************************************)
\* The retryable class as the wrapper's contract states it.
RetryableSignal(msg) ==
  \E sub \in {S429, S503, SResourceExhausted, SQuota, SOverloaded} :
     Includes(msg, sub)

LastLog == rw.log[Len(rw.log)]

\* C7: a retryable error is thrown to the caller only after the operation has
\* been invoked exactly 3 x |IMAGE_MODELS| = 6 times, every invocation failed
\* with a retryable error, and the error thrown is the one of the last
\* invocation.
C7_RetryFallbackBound ==
  (rw.pc = "thrown" /\ RetryableSignal(rw.thrown.message)) =>
     /\ CallsIn(rw.log) = 3 * Len(IMAGE_MODELS)
     /\ \A k \in 1..Len(rw.log) :
          rw.log[k].kind # "ok" /\
          (rw.log[k].kind = "fail" => RetryableSignal(rw.log[k].msg))
     /\ LastLog.kind = "fail"
     /\ rw.thrown = [message |-> LastLog.msg, n |-> 3 * Len(IMAGE_MODELS)]

C7_Witness ==
  /\ rw.pc = "thrown"
  /\ RetryableSignal(rw.thrown.message)
  /\ CallsIn(rw.log) = 6
  /\ rw.thrown.n = 6

\* C8: a failure with a non-retryable error is the last thing the wrapper
\* does: the error is thrown at once, with no wait and no further attempt
\* after it, whatever retryable failures preceded it.
C8_NonRetryableAborts ==
  \A k \in 1..Len(rw.log) :
     (rw.log[k].kind = "fail" /\ ~RetryableSignal(rw.log[k].msg)) =>
        /\ k = Len(rw.log)
        /\ rw.pc = "thrown"
        /\ OrElse(rw.thrown.message, << >>) = rw.log[k].msg
        /\ rw.thrown.n = CallsIn(rw.log)

C8_Witness ==
  /\ rw.pc = "thrown"
  /\ ~RetryableSignal(rw.thrown.message)
  /\ CallsIn(rw.log) >= 2
  /\ \E k \in 1..Len(rw.log) : rw.log[k].kind = "wait"

(***************************************************************************)
(* Properties of the run loops.                                            *)
(***************************************************************************)
RegenKinds == {"regenerate", "regenGen", "regenFailed", "regenDone"}

\* the last step was a step of the loop of run r
LoopStep(r) == event.run = r /\ event.kind \notin RegenKinds

NotCancelled(r) == ~controllers[runs[r].ctrl]

\* run r has reached the end of its plan, and is neither cancelled nor
\* unmounted
Completed(r) == runs[r].pc = "done" /\ NotCancelled(r) /\ isMounted

EntriesOf(ids) == {k \in 1..Len(results) : results[k].id \in ids}

\* the ids a regenerate call is in flight for
RegenIds == {g.id : g \in regens}

\* the ids another activation of the serial loop has a request, a
\* processing or a cool-down in flight for
SerialHeld ==
  {SerialItem(runs[r]).id :
      r \in {q \in 1..Len(runs) : runs[q].pc \in {"gen", "proc", "cooldown"}}}

\* the ids another activation of the grid loop has a batch in flight for
GridHeld ==
  UNION {GridBatchIds(runs[r]) :
            r \in {q \in 1..Len(runs) : runs[q].pc \in {"grid", "proc"}}}

\* C1: small-parallel strategy: when the third attempt of a batch has failed
\* with a retryable error as the two before it, and the run is not cancelled,
\* every member of the batch is success or error, and the run goes on to the
\* next batch (or to its end).
C1_ExhaustedBatchDemoted ==
  \A r \in 1..Len(runs) :
     (event.kind = "exhausted" /\ event.run = r /\ NotCancelled(r) /\ isMounted) =>
        /\ \A k \in EntriesOf(event.ids) :
              results[k].status \in {"success", "error"}
        /\ runs[r].pc \in {"pace", "batch", "done"}

\* C2: serial strategy: once a run has reached the end of its plan without
\* cancellation or unmount, every ledger entry that no other call still has
\* in flight is success or error, whatever ledger earlier runs left behind.
C2_SerialTerminalCoverage ==
  \A r \in 1..Len(runs) :
     Completed(r) =>
        \A k \in 1..Len(results) :
           results[k].id \notin (RegenIds \cup SerialHeld) =>
              results[k].status \in {"success", "error"}

\* C3: grid strategy: once a run has reached the end of its plan without
\* cancellation or unmount, every ledger entry that no other call still has
\* in flight is success or error; none is left pending or generating, for
\* any plan length and any mix of batch successes and failures.
C3_GridTerminalCoverage ==
  \A r \in 1..Len(runs) :
     Completed(r) =>
        \A k \in 1..Len(results) :
           results[k].id \notin (RegenIds \cup GridHeld) =>
              results[k].status \in {"success", "error"}

\* a completed run with a last batch of one item, a batch that succeeded and
\* a batch that failed
C3_Witness ==
  /\ Len(results) = GRID_BATCH_SIZE + 1
  /\ Completed(Len(runs))
  /\ regens = {}
  /\ \E k \in 1..Len(results) : results[k].status = "success"
  /\ \E k \in 1..Len(results) : results[k].status = "error"
  /\ \A k \in 1..Len(results) : results[k].status \in {"success", "error"}

\* C4: small-parallel strategy: the step that handles a non-retryable failure
\* of a batch attempt leaves every member that was success before it success.
C4_FailureKeepsSuccess ==
  event.kind = "batchFailed" => event.prev \subseteq SuccessIds(results)

\* C5: small-parallel strategy: the retry of a batch issues no request for a
\* member whose entry is success, and no member task of a retry writes an
\* entry that is success already.
C5_RetrySkipsSuccess ==
  /\ event.kind = "retry" => event.issued \cap event.prev = {}
  /\ event.kind = "retrySuccess" => event.prev = {}

\* C6: grid strategy: when generateStickerGrid rejects for a batch of a run
\* that is not cancelled, every member of the batch has a ledger entry, the
\* step leaves each of them with status error and one and the same message,
\* and none of them success.
C6_GridBatchAtomicity ==
  \A r \in 1..Len(runs) :
     (event.kind = "gridFailed" /\ event.run = r /\ NotCancelled(r)) =>
        /\ \A id \in event.ids : \E k \in 1..Len(results) : results[k].id = id
        /\ \A k \in EntriesOf(event.ids) :
              /\ results[k].status = "error"
              /\ results[k].error = event.msg
        /\ \A j, k \in EntriesOf(event.ids) : results[j].error = results[k].error

C6_Witness ==
  /\ event.kind = "gridFailed"
  /\ event.run = Len(runs)
  /\ NotCancelled(event.run)
  /\ Cardinality(event.ids) >= 2
  /\ \A k \in EntriesOf(event.ids) : results[k].status = "error"
  /\ \E k \in 1..Len(results) : results[k].status = "success"

\* C9: grid strategy: a run for which handleCancelGeneration was invoked
\* while it was in its inter-batch wait issues no generateStickerGrid request
\* afterwards.
C9_CancelDuringPaceStopsRun ==
  \A r \in 1..Len(runs) :
     (LoopStep(r) /\ runs[r].cancelledAt = "pace") => event.issued = {}

\* C10: every step that changes the ledger is taken on behalf of the current
\* run: by its loop, or by a regenerate call made while it is the current
\* run.
C10_NoWriteFromEarlierRun ==
  event.wrote => event.run = Len(runs)

(***************************************************************************)
(* Properties of a request under cancellation, checked under SpecCall.     *)
(***************************************************************************)
\* cancellation has been signalled for run r
Cancelled(r) == controllers[runs[r].ctrl]

\* C11: once cancellation has been signalled for a run, no step issues a
\* further image-generation request on its behalf: retryWithModelFallback
\* invokes the operation no more, neither after a backoff wait nor on the
\* next model.
C11_NoRequestAfterCancel ==
  [][(\E r \in 1..Len(runs) : Cancelled(r)) =>
        CallsIn(rw'.log) = CallsIn(rw.log)]_vars

(***************************************************************************)
(* Properties of cancellation.                                             *)
(***************************************************************************)
\* C12: serial strategy: a run for which cancellation was signalled while a
\* generation request or a cooldown wait of an item was in progress, and
\* which no later run has replaced, changes no ledger entry afterwards: the
\* item is not set to error and keeps the status it had.
C12_CancelKeepsStatus ==
  \A r \in 1..Len(runs) :
     (/\ LoopStep(r)
      /\ r = Len(runs)
      /\ Cancelled(r)
      /\ runs[r].cancelledAt \in {"gen", "cooldown"}) => ~event.wrote

\* the last step was an invocation of handleCancelGeneration
CancelStep == clicks' = clicks + 1 /\ event'.kind = "cancel"

\* C13: handleCancelGeneration changes the abort signal of the current
\* controller and step only: the ledger, the plan and the rest of the state
\* are as before the call; and the state it leaves is one a second invocation
\* would not change (the signal is already aborted, step is already 'setup').
C13_CancelFrame ==
  [][CancelStep =>
       /\ results' = results
       /\ stickerPlan' = stickerPlan
       /\ isThinking' = isThinking
       /\ isMounted' = isMounted
       /\ abortControllerRef' = abortControllerRef
       /\ <<regens, tasks, planCalls>>' = <<regens, tasks, planCalls>>
       /\ Len(controllers') = Len(controllers)
       /\ \A k \in 1..Len(controllers) :
             k # abortControllerRef => controllers'[k] = controllers[k]
       /\ step' = "setup"
       /\ abortControllerRef' # 0 => controllers'[abortControllerRef']]_vars

\* handleCancelGeneration was invoked on a ledger that holds a success entry
\* and an entry in progress
C13_Witness ==
  /\ event.kind = "cancel"
  /\ step = "setup"
  /\ controllers[abortControllerRef]
  /\ \E k \in 1..Len(results) : results[k].status = "success"
  /\ \E k \in 1..Len(results) : results[k].status = "generating"

\* the smallest number of batches of size b that hold n items
CeilDiv(n, b) == (n + b - 1) \div b

\* run r reached the end of its plan, none of its calls rejected and it was
\* not cancelled while it ran
CleanRun(r) ==
  runs[r].pc = "done" /\ ~runs[r].failed /\ runs[r].cancelledAt = ""

\* the user has done nothing but ask for a plan and start one run
OnlyOneRun == clicks = 2 /\ Len(runs) = 1

\* C14: a grid run over a plan of n items in which no call fails and which
\* is not cancelled issues exactly ceil(n/4) generateStickerGrid requests and
\* exactly n processStickerImage calls; when nothing else was asked of the
\* app, the ledger it leaves has n entries, all of them success.
C14_GridCallCounts ==
  \A r \in 1..Len(runs) :
     CleanRun(r) =>
        LET n == Len(runs[r].plan)
        IN /\ runs[r].calls = CeilDiv(n, GRID_BATCH_SIZE)
           /\ runs[r].procs = n
           /\ OnlyOneRun =>
                 /\ Len(results) = n
                 /\ \A k \in 1..n : results[k].status = "success"

C14_Witness ==
  /\ OnlyOneRun /\ CleanRun(1)
  /\ Len(runs[1].plan) = GRID_BATCH_SIZE + 1
  /\ runs[1].calls = 2 /\ runs[1].procs = GRID_BATCH_SIZE + 1
  /\ \A k \in 1..Len(results) : results[k].status = "success"

\* the last step was step kind of the loop of run r, which is neither
\* cancelled nor unmounted
Undisturbed(r, kind) ==
  LoopStep(r) /\ event.kind = kind /\ NotCancelled(r) /\ isMounted

\* the ledger entry of the item the last step was about is success
ItemSucceeded ==
  \E k \in 1..Len(results) :
     results[k].id \in event.ids /\ results[k].status = "success"

\* after each of the first two rate-limited failures of an item and the wait
\* that follows it, one more request is issued for the item
C15_RetryIssued ==
  \A r \in 1..Len(runs) :
     (Undisturbed(r, "cooled") /\ runs[r].fails <= MAX_RETRIES) =>
        /\ runs[r].pc = "gen"
        /\ runs[r].attempts = runs[r].fails + 1
        /\ runs[r].waits = runs[r].fails

\* an item that succeeds after two rate-limited failures has had exactly three
\* requests and two elapsed waits, and its entry is success
C15_ThirdSucceeds ==
  \A r \in 1..Len(runs) :
     (Undisturbed(r, "success") /\ runs[r].fails = MAX_RETRIES) =>
        /\ runs[r].attempts = MAX_RETRIES + 1
        /\ runs[r].waits = MAX_RETRIES
        /\ ItemSucceeded

\* a step of run r that stays on its item writes no entry of another item
C15_OthersUntouched ==
  \A r \in 1..Len(runs) :
     (event'.run = r /\ event'.kind \notin RegenKinds \cup {"start"}
        /\ runs'[r] # runs[r] /\ runs'[r].i = runs[r].i) =>
        /\ Len(results') = Len(results)
        /\ \A k \in 1..Len(results) :
              results[k].id # SerialItem(runs[r]).id =>
                 results'[k] = results[k]

\* C15: in the serial strategy an item whose first two attempts fail with a
\* rate-limit message and whose third succeeds ends success after exactly
\* three requests, a 20 s wait having elapsed after each failed attempt and
\* before the next request; the entries of the other items are not written.
C15_ThirdAttemptSucceeds ==
  [][/\ C15_RetryIssued'
     /\ C15_ThirdSucceeds'
     /\ C15_OthersUntouched]_vars

C15_Witness ==
  /\ Len(runs) = 1 /\ Undisturbed(1, "success")
  /\ runs[1].fails = 2 /\ runs[1].attempts = 3 /\ runs[1].waits = 2
  /\ ItemSucceeded

\* the key is not configured
KeyAbsent == apiKey = Undefined \/ apiKey = << >>

\* the key does not have the shape of an API key
KeyMalformed == ~KeyAbsent /\ ~StartsWith(apiKey, SAIza)

\* C16: with an absent or malformed key a call of generateStickerPlan,
\* generateStickerGrid or generateSingleStickerImage ends by throwing and
\* never returns, no request, attempt or wait is ever made on its behalf, and
\* handleGeneratePlan leaves the app in step 'setup' with no plan.
C16_BadKeyFailsFast ==
  (KeyAbsent \/ KeyMalformed) =>
     /\ rw.log = << >>
     /\ rw.pc \in {"entry", "thrown"}
     /\ rw.pc = "thrown" =>
           rw.thrown.message =
              IF KeyAbsent THEN MsgNoKey ELSE MsgKeyFormat(apiKey)
     /\ step = "setup" /\ stickerPlan = << >>
     /\ event.kind = "planFailed" => ~isThinking /\ planCalls = 0

C16_Witness ==
  /\ KeyMalformed
  /\ rw.fn = FnPlan /\ rw.pc = "thrown" /\ rw.log = << >>
  /\ event.kind = "planFailed" /\ step = "setup" /\ ~isThinking

\* C17: once a generation request of a run has been rejected for the
\* credential, the run issues no further generation request.
C17_CredentialHaltsRun ==
  [][\A r \in 1..Len(runs) :
        runs[r].fatal => runs'[r].calls = runs[r].calls]_vars

\* the last step issued requests for run r
Issuing(r) == LoopStep(r) /\ event.issued # {}

\* the ids of the plan items before the batch (or item) run r is at
Earlier(r) ==
  {runs[r].plan[q].id : q \in {p \in 1..Len(runs[r].plan) : p <= runs[r].i}}

\* the ids of the plan items from the batch (or item) run r is at onwards
FromCurrent(r) ==
  {runs[r].plan[q].id : q \in {p \in 1..Len(runs[r].plan) : p > runs[r].i}}

\* whenever a run issues requests they are for members of the batch it is
\* at, and every member of an earlier batch has had a request or was skipped
\* as already successful
C18_BatchOrder ==
  \A r \in 1..Len(runs) :
     Issuing(r) =>
        /\ event.issued \subseteq FromCurrent(r)
        /\ Earlier(r) \subseteq runs[r].tried \cup runs[r].seen

\* serial: whenever a run issues a request, it has written success or error
\* for every earlier item it did not skip
C18_SerialResolved ==
  \A r \in 1..Len(runs) :
     Issuing(r) => Earlier(r) \subseteq runs[r].settled \cup runs[r].seen

LegalChanges ==
  {<<"pending", "generating">>, <<"generating", "success">>,
   <<"generating", "error">>}

\* the step is a step of the loop of a run that was already started
RunStep ==
  /\ event'.run \in 1..Len(runs)
  /\ event'.kind \notin RegenKinds \cup {"start"}
  /\ Len(results') = Len(results)

\* C19: small-parallel: every status change a step of a run makes to a
\* ledger entry is pending -> generating, generating -> success or
\* generating -> error; in particular no entry goes from error to success.
C19_LegalStatusChanges ==
  [][RunStep =>
       \A k \in 1..Len(results) :
          results'[k].status # results[k].status =>
             <<results[k].status, results'[k].status>> \in LegalChanges]_vars

\* C20: grid app: a ledger entry has an error message only if its status is
\* error; pending, generating and success entries have none.
C20_ErrorOnlyOnError ==
  \A k \in 1..Len(results) :
     results[k].error # NoError => results[k].status = "error"

\* the ids of a plan or of a ledger, in order
IdsOf(seq) == [k \in 1..Len(seq) |-> seq[k].id]

\* C21: the step that starts a run leaves a ledger with the ids of the plan
\* the run captured, in plan order, and every later step other than a reset
\* or another run start leaves the sequence of ledger ids as it was: no
\* entry is added, removed, duplicated, reordered or given another id.
C21_LedgerShape ==
  [][/\ event'.kind = "start" =>
          IdsOf(results') = IdsOf(runs'[Len(runs')].plan)
     /\ event'.kind \notin {"start", "reset"} =>
          IdsOf(results') = IdsOf(results)]_vars

C21_Witness ==
  /\ Len(runs) = 1 /\ event.kind = "regenDone"
  /\ Len(results) = GRID_BATCH_SIZE + 1
  /\ IdsOf(results) = IdsOf(runs[1].plan)

\* the step is the success write of batch member t
MemberWrite(t) ==
  /\ t \in tasks /\ t.pc = "proc" /\ t \notin tasks'
  /\ event'.run = t.run /\ event'.kind \in {"memberSuccess", "retrySuccess"}

\* entry e holds the raw image of try n of run r for its item and the
\* composite made from it
HoldsImage(e, r, n) ==
  /\ e.status = "success"
  /\ e.imageUrl = SingleImage(r, e.id, n)
  /\ e.processedUrl = ProcessStickerImage(SingleImage(r, e.id, n))

\* C22: small-parallel: the success write of a batch member replaces its own
\* entry with its own raw and processed image and leaves every other entry
\* as it was; and when the last member of a batch completes, in a run that
\* is all the user has asked for, each member's entry is success with an
\* image that run generated for it.
C22_MemberWritesMerge ==
  [][\A t \in tasks :
        MemberWrite(t) =>
           /\ Len(results') = Len(results)
           /\ \A k \in 1..Len(results) :
                 IF results[k].id = t.id
                 THEN HoldsImage(results'[k], t.run, t.n)
                 ELSE results'[k] = results[k]
           /\ (LastLive(t) /\ OnlyOneRun) =>
                 \A k \in 1..Len(results) :
                    results[k].id \in ParBatchIds(runs[t.run]) =>
                       \E n \in 0..t.n : HoldsImage(results'[k], t.run, n)]_vars

\* the three members of a batch have all written and the ledger holds the
\* three images
C22_Witness ==
  /\ OnlyOneRun /\ event.kind = "memberSuccess" /\ event.run = 1
  /\ Len(results) >= PARALLEL_BATCH_SIZE
  /\ \A k \in 1..PARALLEL_BATCH_SIZE : HoldsImage(results[k], 1, 0)

\* entry e has a raw image and a composite
HasImages(e) == e.imageUrl # NoImage /\ e.processedUrl # NoImage

\* entry e has neither
HasNoImage(e) == e.imageUrl = NoImage /\ e.processedUrl = NoImage

\* C23: grid app: a success entry has a raw and a processed image; the
\* ledger a run start creates has no image in any entry, and a later step
\* changes an image of an entry only by making the entry success with both
\* images, so an entry that was never success has none.
C23_ImagesIffSucceeded ==
  [][/\ \A k \in 1..Len(results') :
          results'[k].status = "success" => HasImages(results'[k])
     /\ event'.kind = "start" =>
          \A k \in 1..Len(results') : HasNoImage(results'[k])
     /\ event'.kind \notin {"start", "reset"} =>
          \A k \in 1..Len(results) :
             \/ /\ results'[k].imageUrl = results[k].imageUrl
                /\ results'[k].processedUrl = results[k].processedUrl
             \/ /\ results'[k].status = "success"
                /\ HasImages(results'[k])]_vars

C23_Witness ==
  /\ \E k \in 1..Len(results) :
        results[k].status = "success" /\ HasImages(results[k])
  /\ \E k \in 1..Len(results) :
        results[k].status = "generating" /\ HasNoImage(results[k])

\* the pixels the pass has gone over, as 0-based offsets into the data
Passed == {p \in 0..(Len(imageData.data) - 1) : p % 4 = 0 /\ p < imageData.i}

\* the pixel at offset p was near-white when read
NearWhite(p) ==
  /\ imageData.orig[p + 1] > 240
  /\ imageData.orig[p + 2] > 240
  /\ imageData.orig[p + 3] > 240

\* C24: the background-removal pass makes a pixel fully transparent exactly
\* when its red, green and blue are all greater than 240; every other pixel
\* keeps its alpha, no colour channel changes, and the pixels the loop has
\* not reached are as they were read.
C24_BackgroundRemoval ==
  /\ Len(imageData.data) = Len(imageData.orig)
  /\ \A p \in Passed :
        /\ \A c \in 1..3 : imageData.data[p + c] = imageData.orig[p + c]
        /\ imageData.data[p + 4] =
              IF NearWhite(p) THEN 0 ELSE imageData.orig[p + 4]
  /\ \A q \in 1..Len(imageData.data) :
        q > imageData.i => imageData.data[q] = imageData.orig[q]

\* the pass has made an opaque pixel with r = g = b = 241 transparent
C24_Witness ==
  /\ imageData.i = 4
  /\ SubSeq(imageData.orig, 1, 4) = <<241, 241, 241, 255>>
  /\ SubSeq(imageData.data, 1, 4) = <<241, 241, 241, 0>>

\* the archive has been generated from the files of the folder
Archived == zip.pc = "done"

\* the ledger entries with status success and a processed image, in order
Packable == {k \in 1..Len(results) :
               results[k].status = "success" /\ results[k].processedUrl # NoImage}

\* sticker_<id+1>.png, for the ids of the ledgers considered
NameOfId(id) ==
  <<"s","t","i","c","k","e","r","_">> \o <<<<"1","2","3","4","5">>[id + 1]>>
    \o <<".","p","n","g">>

\* the folder holds one file per packable entry, under its name, and no
\* other file named after a sticker
StickerFilesExact ==
  LET variants == {SMainPng, STabPng}
      sticker == {f \in zip.files : f.name \notin variants}
  IN /\ \A k \in Packable :
          [name |-> NameOfId(results[k].id),
           data |-> [base64 |-> results[k].processedUrl]] \in zip.files
     /\ Cardinality(sticker) = Cardinality(Packable)
     /\ Cardinality({f.name : f \in zip.files}) = Cardinality(zip.files)

\* the first packable entry of the ledger
FirstPackable == results[CHOOSE k \in Packable : \A j \in Packable : k <= j]

\* the file of a variant of the first packable entry
VariantFile(name, w, h) ==
  [name |-> name,
   data |-> [base64 |-> [kind |-> "resized", of |-> FirstPackable.processedUrl,
                         width |-> w, height |-> h]]]

\* C25 as stated: the archive holds one sticker_<id+1>.png per success entry
\* with a processed image, none for another entry, and, when there is such
\* an entry, main.png (240x240) and tab.png (96x74) made from the first.
C25_ArchiveContent ==
  Archived =>
    /\ StickerFilesExact
    /\ Packable # {} =>
          /\ VariantFile(SMainPng, 240, 240) \in zip.files
          /\ VariantFile(STabPng, 96, 74) \in zip.files

\* C25 as amended: the sticker files are as stated; main.png is in the
\* archive exactly when the first resize succeeded and tab.png exactly when
\* both did, each made from the first success entry in ledger order.
C25_ArchiveContentResized ==
  Archived =>
    /\ StickerFilesExact
    /\ Packable # {}
    /\ (VariantFile(SMainPng, 240, 240) \in zip.files) = (zip.resized >= 1)
    /\ (VariantFile(STabPng, 96, 74) \in zip.files) = (zip.resized = 2)
    /\ Cardinality(zip.files) = Cardinality(Packable) + zip.resized

\* an archive of a ledger with an error entry that still has its images and
\* two success entries, with both variants
C25_Witness ==
  /\ Archived
  /\ zip.resized = 2
  /\ Len(results) = 3
  /\ results[1].status = "error" /\ results[1].processedUrl # NoImage
  /\ Packable = {2, 3}
  /\ Cardinality(zip.files) = 4

\* the first characters of the key are those of p
KeyBegins(p) ==
  /\ apiKey # Undefined
  /\ Len(apiKey) >= Len(p)
  /\ \A k \in 1..Len(p) : apiKey[k] = p[k]

\* getAI has been called and has thrown the message m
GetAIThrew(m) ==
  rw.pc = "thrown" /\ rw.log = << >> /\ rw.thrown = [message |-> m, n |-> 0]

\* getAI has been called and has returned a client: the request was made
ClientCreated == rw.pc # "entry" /\ rw.log # << >>

\* C26: once a service function has called getAI, it has thrown the 'not
\* configured' error exactly when the key is absent or empty, the different
\* 'wrong format' error exactly when the key is non-empty and begins with
\* 'gen-lang-client' or does not begin with 'AIza', and has created the
\* client in every other case.
C26_KeyValidation ==
  LET absent == apiKey = Undefined \/ apiKey = << >>
      wrong == /\ ~absent
               /\ \/ KeyBegins(<<"g","e","n","-","l","a","n","g","-",
                                 "c","l","i","e","n","t">>)
                  \/ ~KeyBegins(<<"A","I","z","a">>)
  IN rw.pc # "entry" =>
       /\ GetAIThrew(MsgNoKey) = absent
       /\ (~absent => GetAIThrew(MsgKeyFormat(apiKey)) = wrong)
       /\ ClientCreated = (~absent /\ ~wrong)
       /\ ~absent => MsgNoKey # MsgKeyFormat(apiKey)

\* a project id was refused by generateSingleStickerImage for its format
C26_Witness ==
  /\ KeyBegins(SGenLang)
  /\ rw.fn # FnPlan
  /\ GetAIThrew(MsgKeyFormat(apiKey))

\* the content parts of the response handled, and its finish reason
PartsHandled ==
  IF response.candidates # << >> /\ response.candidates[1].hasParts
  THEN response.candidates[1].parts ELSE << >>
ReasonHandled ==
  IF response.candidates # << >> THEN response.candidates[1].finishReason
  ELSE Undefined

\* the positions of the parts that carry image data
ImagePositions ==
  {k \in 1..Len(PartsHandled) :
     PartsHandled[k].inline /\ PartsHandled[k].data \in {<<"Q">>, <<"R">>}}

\* the finish reason is one of content safety
SafetyReason ==
  ReasonHandled \in {<<"S","A","F","E","T","Y">>,
                     <<"I","M","A","G","E","_","S","A","F","E","T","Y">>}

\* the error thrown names a safety block
SafetyReported == Includes(response.result.message, <<"S","a","f","e","t","y">>)

\* C27: a response without an image part is reported as a safety block only
\* when its finish reason is one of content safety and as 'no image
\* returned' otherwise; a response with an image part returns the data of
\* the first such part.
C27_NoImageClassified ==
  response.pc \in {"returned", "thrown"} =>
    IF ImagePositions = {}
    THEN /\ response.pc = "thrown"
         /\ SafetyReported = SafetyReason
         /\ ~SafetyReason =>
               response.result.message = MsgNoImageReturned(response.fn)
    ELSE /\ response.pc = "returned"
         /\ LET first == CHOOSE k \in ImagePositions :
                            \A j \in ImagePositions : k <= j
            IN response.result.value = DataUrl(PartsHandled[first])

\* C28: the ids of the plan are 0..n-1 in order, once each, after
\* generateStickerPlan and after every caption edit and language switch; an
\* edit or a switch changes the text of items only, never an id, the
\* originals, the order or the number of items.
C28_PlanIdsContiguous ==
  [][/\ \A k \in 1..Len(stickerPlan') : stickerPlan'[k].id = k - 1
     /\ event'.kind \in {"textChange", "languageSwitch"} =>
           /\ Len(stickerPlan') = Len(stickerPlan)
           /\ \A k \in 1..Len(stickerPlan) :
                 /\ stickerPlan'[k].id = stickerPlan[k].id
                 /\ stickerPlan'[k].originalTc = stickerPlan[k].originalTc
                 /\ stickerPlan'[k].originalEn = stickerPlan[k].originalEn]_vars

\* a plan of two items after a switch to English and an edit of the second
C28_Witness ==
  /\ event.kind = "textChange"
  /\ Len(stickerPlan) = 2
  /\ stickerPlan[1].text = stickerPlan[1].originalEn
  /\ stickerPlan[2].text = <<"x">>
  /\ stickerPlan[2].id = 1

\* the positions of the log where the operation was invoked, and the failures
CallPositions == {k \in 1..Len(rw.log) : rw.log[k].kind = "call"}
FailPositions == {k \in 1..Len(rw.log) : rw.log[k].kind = "fail"}

\* the place of a model in the list of candidates
ModelIndex(name) == CHOOSE i \in 1..2 :
  <<"gemini-2.5-flash-image", "gemini-2.0-flash-exp">>[i] = name

\* the failures on a model before position k of the log
FailsBefore(name, k) == {j \in FailPositions : j < k /\ rw.log[j].model = name}

\* C29: the models are tried strictly in list order: the first attempt is on
\* the primary model, the fallback model is attempted only after exactly 3
\* failures on the primary, all retryable, the attempts on each model are
\* numbered from 1, and no attempt on a model follows an attempt on a later
\* model.
C29_ModelOrder ==
  \A k \in CallPositions :
     LET name == rw.log[k].model
         earlier == {j \in CallPositions : j < k}
     IN /\ earlier = {} => ModelIndex(name) = 1 /\ rw.log[k].attempt = 1
        /\ \A j \in earlier :
              ModelIndex(rw.log[j].model) <= ModelIndex(name)
        /\ rw.log[k].attempt =
              1 + Cardinality({j \in earlier : rw.log[j].model = name})
        /\ ModelIndex(name) = 2 =>
              /\ Cardinality(FailsBefore("gemini-2.5-flash-image", k)) = 3
              /\ \A j \in FailsBefore("gemini-2.5-flash-image", k) :
                    RetryableSignal(rw.log[j].msg)

\* the fallback model is on its second attempt
C29_Witness ==
  /\ rw.pc = "call"
  /\ rw.log[Len(rw.log)] =
        [kind |-> "call", model |-> "gemini-2.0-flash-exp", attempt |-> 2,
         msg |-> << >>, ms |-> 0]
  /\ Cardinality(CallPositions) = 5

\* the last invocation before position k of the log
PreviousCall(k) ==
  CHOOSE j \in CallPositions : j < k /\ \A i \in CallPositions : i < k => i <= j

\* C30 as stated: every attempt after the first is issued right after a
\* backoff wait of (attempt x 5 s + 2 s) for the attempt that failed before
\* it, so that no two attempts are issued without a wait between them.
C30_BackoffBeforeEveryAttempt ==
  \A k \in CallPositions :
     k > 1 =>
       /\ rw.log[k - 1].kind = "wait"
       /\ rw.log[k - 1].ms = rw.log[PreviousCall(k)].attempt * 5000 + 2000

\* C30 as amended: a retryable failure of attempt 1 or 2 is followed by a
\* wait of 7 s or 12 s and then by the next attempt on the same model; a
\* retryable failure of attempt 3 is followed by no wait: the first attempt
\* on the next model comes at once, or nothing when no model is left.
C30_BackoffOnSameModel ==
  \A k \in FailPositions :
     RetryableSignal(rw.log[k].msg) =>
       LET a == rw.log[k].attempt
           after(n) == k + n <= Len(rw.log)
       IN IF a < 3
          THEN /\ after(1)
               /\ rw.log[k + 1].kind = "wait"
               /\ rw.log[k + 1].ms = <<7000, 12000>>[a]
               /\ after(2) =>
                     /\ rw.log[k + 2].kind = "call"
                     /\ rw.log[k + 2].model = rw.log[k].model
                     /\ rw.log[k + 2].attempt = a + 1
          ELSE after(1) =>
                 /\ rw.log[k + 1].kind = "call"
                 /\ rw.log[k + 1].model # rw.log[k].model
                 /\ rw.log[k + 1].attempt = 1

\* the primary model was left after waits of 7 s and 12 s and a third
\* failure, and the fallback model is on its first attempt
C30_Witness ==
  /\ rw.pc = "call" /\ rw.model = 2 /\ rw.attempt = 1
  /\ Len(rw.log) = 9
  /\ rw.log[3].ms = 7000 /\ rw.log[6].ms = 12000
  /\ rw.log[8].kind = "fail" /\ rw.log[9].kind = "call"

\* the step of run r set the entry of its item to error, if the ledger still
\* has one, and went on to the pacing wait or past the last item without a
\* further request
ErrorAndOn(r) ==
  /\ \A k \in 1..Len(results') :
        results'[k].id = SerialItem(runs[r]).id => results'[k].status = "error"
  /\ runs'[r].pc \in {"pace", "done", "stopped"}
  /\ runs'[r].calls = runs[r].calls

\* C31: a serial run issues at most 3 requests for an item and at most 3n
\* for a plan of n items; when the third attempt on an item has failed
\* retryably the item is set to error and the run moves on; a failure that
\* is not retryable sets the item to error at once, after one request when
\* it was the first attempt; and when every call and wait returns, every run
\* comes to its end.
C31_SerialRequestBound ==
  /\ \A r \in 1..(MaxClicks \div 2) :
        [](Len(runs) >= r =>
             <>(Len(runs) < r \/ runs[r].pc \in {"done", "stopped"}))
  /\ [][/\ \A r \in 1..Len(runs') :
             /\ runs'[r].attempts <= 3
             /\ runs'[r].calls <= 3 * Len(runs'[r].plan)
             /\ runs'[r].calls <= 3 * runs'[r].i + runs'[r].attempts
        /\ \A r \in 1..Len(runs) :
             event'.run = r =>
               /\ (event'.kind = "cooled" /\ runs[r].fails = 3) => ErrorAndOn(r)
               /\ (/\ event'.kind \in {"genFailed", "procFailed"}
                   /\ runs'[r].fails = runs[r].fails) =>
                     /\ ErrorAndOn(r)
                     /\ runs[r].retryCount = 0 => runs'[r].attempts = 1]_vars

\* a run over two items came to its end after six requests, every one of
\* which failed retryably
C31_Witness ==
  /\ Len(runs) = 1
  /\ event.kind = "cooled"
  /\ runs[1].pc = "done" /\ Len(runs[1].plan) = 2
  /\ runs[1].fails = 3 /\ runs[1].calls = 6
  /\ results[1].status = "error" /\ results[2].status = "error"

\* C32: when generateStickerPlan fails, handleGeneratePlan leaves the plan,
\* the ledger and the step as they were and sets isThinking to false; and
\* isThinking is not true when no call of generateStickerPlan is pending.
C32_PlanFailureFrame ==
  [][/\ event'.kind = "planFailed" =>
          /\ stickerPlan' = stickerPlan
          /\ results' = results
          /\ step' = step
          /\ ~isThinking'
     /\ planCalls' = 0 => ~isThinking']_vars

\* a second plan request failed while a run over the first plan was going on
C32_Witness ==
  /\ event.kind = "planFailed"
  /\ step = "generating"
  /\ stickerPlan # << >> /\ IsGenerating(results)
  /\ planCalls = 0 /\ ~isThinking

\* the ledger changed at most in the entries of id, whose status became st
OnlyEntry(id, st) ==
  /\ Len(results') = Len(results)
  /\ \A k \in 1..Len(results) :
        IF results[k].id = id
        THEN results'[k].status = st /\ results'[k].id = id
        ELSE results'[k] = results[k]

\* C33: handleRegenerateSingle(id) issues one generateSingleStickerImage
\* call when id is in the plan, having set the entry of id to generating;
\* when the call and the processing return it sets that entry to success
\* with the new images, when either fails to error; no step of it changes
\* another entry or issues another call; for an id that is not in the plan
\* it changes nothing and issues no call.
C33_RegenerateFrame ==
  [][/\ event'.kind = "regenerate" =>
          \/ /\ regens' = regens /\ results' = results
             /\ event'.issued = {}
          \/ \E g \in regens' \ regens :
                /\ regens' = regens \cup {g}
                /\ g.pc = "gen"
                /\ InPlan(stickerPlan, g.id)
                /\ OnlyEntry(g.id, "generating")
     /\ event'.kind \in {"regenGen", "regenDone", "regenFailed"} =>
          \E g \in regens \ regens' :
             /\ regens' \ regens \subseteq {[g EXCEPT !.pc = "proc"]}
             /\ event'.kind = "regenGen" =>
                   results' = results /\ regens' # regens \ {g}
             /\ event'.kind = "regenFailed" =>
                   OnlyEntry(g.id, "error") /\ regens' = regens \ {g}
             /\ event'.kind = "regenDone" =>
                   /\ OnlyEntry(g.id, "success")
                   /\ regens' = regens \ {g}
                   /\ \A k \in 1..Len(results) :
                         results[k].id = g.id =>
                           /\ results'[k].imageUrl # results[k].imageUrl
                           /\ results'[k].imageUrl.kind = "regen"
                           /\ results'[k].processedUrl =
                                 [results'[k].imageUrl EXCEPT !.png = TRUE]]_vars

\* the third entry of a ledger of five was regenerated
C33_Witness ==
  /\ event.kind = "regenDone"
  /\ Len(results) = 5
  /\ results[3].status = "success" /\ results[3].imageUrl.kind = "regen"
  /\ \A k \in {1, 2, 4, 5} :
        results[k].status = "success" /\ results[k].imageUrl.kind # "regen"

\* C34: a serial run goes from an item to the next one only through the
\* 5 s pacing wait, whether the item ended success or error, so the wait
\* lies between the last request for an item and the first for the next;
\* no request is issued when the wait begins, and the run does not wait
\* after its last item (which it passes in the same step when it skips it).
C34_SerialPacing ==
  [][/\ \A r \in 1..Len(runs') :
          runs'[r].pc = "pace" => runs'[r].i < Len(runs'[r].plan) - 1
     /\ \A r \in 1..Len(runs) :
          /\ runs'[r].i # runs[r].i =>
                /\ runs'[r].i > runs[r].i
                /\ runs'[r].i > runs[r].i + 1 =>
                      /\ runs'[r].i = Len(runs[r].plan)
                      /\ runs'[r].calls = runs[r].calls
                /\ IF runs[r].i < Len(runs[r].plan) - 1
                   THEN /\ runs[r].pc = "pace"
                        /\ event'.kind = "paced" /\ event'.run = r
                   ELSE runs[r].pc # "pace" /\ runs'[r].pc = "done"
          /\ (runs'[r].pc = "pace" /\ runs[r].pc # "pace") =>
                /\ event'.issued = {}
                /\ runs'[r].calls = runs[r].calls
          /\ runs'[r].calls # runs[r].calls =>
                /\ runs'[r].calls = runs[r].calls + 1
                /\ runs'[r].attempts = 1 =>
                      runs'[r].i = 0 \/ runs[r].pc = "pace"]_vars

\* the first item of a run ended in error, the pacing wait elapsed and the
\* first request for the second item is out
C34_Witness ==
  /\ Len(runs) = 1
  /\ event.kind = "paced"
  /\ runs[1].pc = "gen" /\ runs[1].i = 1 /\ runs[1].attempts = 1
  /\ results[1].status = "error"

\* no controller is installed, or the installed one is aborted: no run has
\* been started since the last cancel or reset
NoLiveController == abortControllerRef = 0 \/ controllers[abortControllerRef]

\* C35: handleReset leaves step 'setup', an empty plan, an empty ledger and
\* isThinking false, with the installed controller aborted; from then on,
\* until handleStartGeneration is called again, no step (the completion of
\* a request, of a processing call or of a wait that was pending) adds or
\* changes a ledger entry or issues a request.
C35_ResetQuiesces ==
  [][/\ event'.kind = "reset" =>
          /\ step' = "setup" /\ stickerPlan' = << >> /\ results' = << >>
          /\ isThinking' = FALSE
          /\ NoLiveController'
     /\ (NoLiveController /\ results = << >> /\ event'.kind # "start") =>
          /\ results' = << >>
          /\ NoLiveController'
          /\ event'.issued = {}
          /\ \A r \in 1..Len(runs) : runs'[r].calls = runs[r].calls]_vars

\* a run that handleReset interrupted while its first batch was being
\* processed has resumed with the success updater and stopped
C35_Witness ==
  /\ Len(runs) = 1 /\ runs[1].cancelledAt = "reset"
  /\ event.kind = "success" /\ event.run = 1
  /\ Len(runs[1].plan) > GRID_BATCH_SIZE
  /\ results = << >>

\* C36: handleDownloadAll is started only from a ledger with no pending or
\* generating entry and at least one success entry, and
\* handleRegenerateSingle is started only from a ledger with no pending or
\* generating entry.
C36_ControlsGated ==
  [][/\ (zip.pc \in {"idle", "done"} /\ zip'.pc \notin {"idle", "done"}) =>
          /\ \A k \in 1..Len(results) :
                results[k].status \notin {"pending", "generating"}
          /\ \E k \in 1..Len(results) : results[k].status = "success"
     /\ (clicks' # clicks /\ event'.kind = "regenerate") =>
          \A k \in 1..Len(results) :
             results[k].status \notin {"pending", "generating"}]_vars

\* an archive was made of a ledger with an error entry, then one of its
\* success entries was regenerated and a second download is under way
C36_Witness ==
  /\ zip.pc = "main"
  /\ regens = {}
  /\ \E k \in 1..Len(results) : results[k].status = "error"
  /\ \E k \in 1..Len(results) :
        results[k].status = "success" /\ results[k].imageUrl.kind = "regen"

\* C37: a grid run issues one generateStickerGrid call per batch, in batch
\* order: each call is for the batch 4 items after the one of the call
\* before it and for no item a call was issued for already, so a run that
\* reaches the end of its plan uncancelled has issued ceil(n/4) calls,
\* whether they resolved or rejected; and the step that handles the
\* failure of a batch changes no ledger entry of an id outside that batch.
C37_GridOneCallPerBatch ==
  [][/\ \A r \in 1..Len(runs') :
          /\ runs'[r].pc = "grid" =>
                runs'[r].calls = (runs'[r].i \div GRID_BATCH_SIZE) + 1
          /\ (runs'[r].pc = "done" /\ runs'[r].cancelledAt = "") =>
                runs'[r].calls = CeilDiv(Len(runs'[r].plan), GRID_BATCH_SIZE)
     /\ \A r \in 1..Len(runs) :
          runs'[r].calls # runs[r].calls =>
             /\ runs'[r].calls = runs[r].calls + 1
             /\ runs'[r].i = runs[r].i + GRID_BATCH_SIZE
             /\ event'.run = r
             /\ event'.issued = GridBatchIds(runs'[r])
             /\ event'.issued \cap runs[r].tried = {}
     /\ event'.kind \in {"gridFailed", "procFailed"} =>
          /\ Len(results') = Len(results)
          /\ \A k \in 1..Len(results) :
                results[k].id \notin event'.ids => results'[k] = results[k]]_vars

\* the only run of a plan of 5 items reached its end: the call of its first
\* batch rejected, the call of its second resolved
C37_Witness ==
  /\ OnlyOneRun /\ runs[1].pc = "done" /\ runs[1].cancelledAt = ""
  /\ runs[1].failed
  /\ Len(runs[1].plan) = GRID_BATCH_SIZE + 1 /\ runs[1].calls = 2
  /\ \A k \in 1..GRID_BATCH_SIZE : results[k].status = "error"
  /\ results[GRID_BATCH_SIZE + 1].status = "success"

\* the generateSingleStickerImage requests of run r that have not settled
InFlight(r) == {t \in tasks : t.run = r /\ t.pc = "gen"}

\* C38: at any moment at most BATCH_SIZE = 3 generateSingleStickerImage
\* requests of one small-parallel run are in flight.
C38_InFlightBound ==
  \A r \in 1..Len(runs) : Cardinality(InFlight(r)) <= PARALLEL_BATCH_SIZE

====
